---- MODULE Spec2Model ----
(***************************************************************************)
(* A model of the please-show dependency-graph viewer: the graph analysis  *)
(* queries (src/lib/analysis) and the package hull computation             *)
(* (src/lib/graph/hulls.ts), over the graphology graph built by            *)
(* parseGraph (src/lib/graph/parser.ts).                                   *)
(***************************************************************************)
EXTENDS Integers, Sequences, FiniteSets, TLC

\* ------------------------------------------------------------------ bounds
\* Number of nodes of the graph the analysis queries run on.
MaxNodes == 3
\* Number of edges parseGraph adds at most.
MaxEdges == 3
\* Number of nodes of the graph the hulls are computed for.
MaxHullNodes == 3
\* Node positions are the points (i * GridStep, j * GridStep) with
\* i in 0..GridX and j in 0..GridY.
GridX == 2
GridY == 1
GridStep == 40

VARIABLES
    edges,      \* the graph's edges <<source, target>>, in insertion order
    call,       \* the analysis entry point called last, with its arguments
    ret,        \* what that call returned
    attrs,      \* hull input: the node attributes x, y, package, hidden
    padding,    \* hull input: the padding computePackageHulls is called with
    hulls,      \* what computePackageHulls returned, in Map insertion order
    targets,    \* layout input: the packages of the build graph and how many
                \* targets each has, in the order parseGraph adds their nodes
    packageTree,\* the tree applyHierarchicalLayout built, with its bounds
    positions,  \* the x and y attributes of the nodes of that graph
    applied,    \* the call of applyLayout made last on that graph, where the
                \* runs of a layout are compared: its arguments and results
    store,      \* the zustand stores: the graph loaded and the layout settings
    view        \* the React tree: what was rendered, the effects to run, the
                \* refs, and which layout run wrote the positions of a graph

analysisVars == <<edges, call, ret>>
hullVars == <<attrs, padding, hulls>>
layoutVars == <<targets, packageTree, positions, applied>>
effectVars == <<store, view>>
vars == <<edges, call, ret, attrs, padding, hulls, targets, packageTree, positions,
          applied, store, view>>

\* What the analysis actions and the hull actions leave alone.
exceptAnalysis == <<hullVars, layoutVars, effectVars>>
exceptHull == <<analysisVars, layoutVars, effectVars>>
exceptLayout == <<analysisVars, hullVars, effectVars, applied>>

\* No call of applyLayout is on record.
NoLayout ==
    [algorithm |-> "none", quality |-> "none", forces |-> [x |-> 0, y |-> 0],
     nodeToLayer |-> <<>>, start |-> <<>>, out |-> <<>>, runs |-> 0,
     again |-> "no", weight |-> <<>>]

\* No graph was handed to the hierarchical layout.
LayoutIdle ==
    /\ targets = <<>>
    /\ packageTree = <<>>
    /\ positions = <<>>
    /\ applied = NoLayout

\* ------------------------------------------------------- the stores and the React tree
\* No graph is loaded.
NoGraph == 0
\* The settings of a graph no layout was applied to.
NoSettings == 0
\* One value for each combination of the layout settings the layout effect
\* depends on (algorithm, quality, direction, spacing, ..).
DefaultSettings == 1
\* Settings a setter of the layout store has changed.
OtherSettings == 2
LayoutSettings == {DefaultSettings, OtherSettings}
\* One value for each combination of the filters of the filter store.
DefaultFilters == 1
\* Filters a setter of the filter store has changed.
OtherFilters == 2
Filters == {DefaultFilters, OtherFilters}

\* create(..) of layoutStore.ts, with the graph of the app store and the
\* filters of the filter store.
InitialStore ==
    [graph |-> NoGraph, settings |-> DefaultSettings, filters |-> DefaultFilters,
     layoutVersion |-> 0, hullVersion |-> 0, showHulls |-> FALSE]

\* The dependencies of an effect of a component that is not mounted.
Unmounted == <<>>

\* The effect of GraphLoader: [graph, sigma].
LoaderDeps(r) == <<r.graph>>
\* The effect of HullRenderer that computes the hulls, without hullVersion.
HullDepsNoVersion(r) == <<r.showHulls>>
\* The effect of HullRenderer that computes the hulls:
\* [sigma, showHulls, hullVersion, drawHulls].
HullDeps(r) == <<r.showHulls, r.hullVersion>>
\* The effect of useApplyFilters.
FilterDeps(r) == <<r.graph, r.filters>>
\* The effect of useApplyLayout, without layoutVersion.
LayoutDepsNoVersion(r) == <<r.graph, r.settings>>
\* The effect of useApplyLayout: the graph, the settings and layoutVersion.
LayoutDeps(r) == <<r.graph, r.settings, r.layoutVersion>>

\* The tree after the first render without a graph: App's effects have run
\* and returned at once, GraphCanvas shows its placeholder.
InitialView ==
    [rendered |-> InitialStore,
     queue |-> <<>>,
     loaderDeps |-> Unmounted,
     hullDeps |-> Unmounted,
     filterDeps |-> FilterDeps(InitialStore),
     layoutDeps |-> LayoutDeps(InitialStore),
     sigmaGraph |-> NoGraph,
     hullsRef |-> <<>>,
     written |-> <<>>,
     runs |-> 0,
     flushing |-> FALSE]

EffectsIdle ==
    /\ store = InitialStore
    /\ view = InitialView

\* ------------------------------------------------------- the graph (graphology)
\* The nodes, named by their insertion order (graph.forEachNode's order).
Nodes == 1..MaxNodes
\* An id that is no node of the graph.
AbsentId == MaxNodes + 1
Ids == Nodes \cup {AbsentId}

NodeOrder == [i \in 1..MaxNodes |-> i]

hasNode(n) == n \in Nodes

hasEdge(g, s, t) == \E i \in 1..Len(g) : g[i] = <<s, t>>

RECURSIVE SelectTargets(_, _)
SelectTargets(g, n) ==
    IF g = <<>> THEN <<>>
    ELSE IF Head(g)[1] = n THEN <<Head(g)[2]>> \o SelectTargets(Tail(g), n)
    ELSE SelectTargets(Tail(g), n)

RECURSIVE SelectSources(_, _)
SelectSources(g, n) ==
    IF g = <<>> THEN <<>>
    ELSE IF Head(g)[2] = n THEN <<Head(g)[1]>> \o SelectSources(Tail(g), n)
    ELSE SelectSources(Tail(g), n)

\* graph.outNeighbors(n), graph.forEachOutNeighbor(n, ..): the targets of n's
\* out-edges in the order the edges were added.
outNeighbors(g, n) == SelectTargets(g, n)

\* graph.inNeighbors(n), graph.forEachInNeighbor(n, ..)
inNeighbors(g, n) == SelectSources(g, n)

neighborsOf(g, n, direction) ==
    IF direction = "out" THEN outNeighbors(g, n) ELSE inNeighbors(g, n)

\* ------------------------------------------------------- results of a call
NoPath == [kind |-> "null", path |-> <<>>, list |-> <<>>]
PathFound(p) == [kind |-> "path", path |-> p, list |-> <<>>]
\* graphology's NotFoundGraphError, thrown by a neighbor query on an absent id
NotFoundError == [kind |-> "NotFound", path |-> <<>>, list |-> <<>>]
NodeList(s) == [kind |-> "nodes", path |-> s, list |-> <<>>]
CycleList(l) == [kind |-> "cycles", path |-> <<>>, list |-> l]
NoReturn == [kind |-> "none", path |-> <<>>, list |-> <<>>]
NoCall == [fn |-> "none", a |-> AbsentId, b |-> AbsentId]

\* ------------------------------------------------------- pathFinder.ts
RECURSIVE ReconstructPathPush(_, _, _)
ReconstructPathPush(parent, node, path) ==
    IF node \in DOMAIN parent
    THEN ReconstructPathPush(parent, parent[node], Append(path, parent[node]))
    ELSE path

\* The walk back from the target along parent, each node put in front.
RECURSIVE ReconstructPath(_, _, _)
ReconstructPath(parent, node, path) ==
    IF node \in DOMAIN parent
    THEN ReconstructPath(parent, parent[node], <<parent[node]>> \o path)
    ELSE path

RECURSIVE BfsQueue(_, _, _, _, _, _)
RECURSIVE BfsNeighbors(_, _, _, _, _, _, _, _, _)
BfsNeighbors(g, direction, target, current, nbrs, i, visited, parent, queue) ==
    IF i > Len(nbrs) THEN BfsQueue(g, direction, target, visited, parent, queue)
    ELSE LET neighbor == nbrs[i] IN
         IF neighbor \in visited
         THEN BfsNeighbors(g, direction, target, current, nbrs, i + 1,
                           visited, parent, queue)
         ELSE LET parent2 == (neighbor :> current) @@ parent IN
              IF neighbor = target
              THEN PathFound(ReconstructPath(parent2, target, <<target>>))
              ELSE BfsNeighbors(g, direction, target, current, nbrs, i + 1,
                                visited \cup {neighbor}, parent2,
                                Append(queue, neighbor))

BfsQueue(g, direction, target, visited, parent, queue) ==
    IF queue = <<>> THEN NoPath
    ELSE LET current == Head(queue) IN
         IF ~hasNode(current) THEN NotFoundError
         ELSE BfsNeighbors(g, direction, target, current,
                           neighborsOf(g, current, direction), 1,
                           visited, parent, Tail(queue))

bfsPath(g, source, target, direction) ==
    IF source = target THEN PathFound(<<source>>)
    ELSE BfsQueue(g, direction, target, {source}, <<>>, <<source>>)

findShortestPathReverseFirst(g, source, target) ==
    LET reversePath == bfsPath(g, source, target, "in") IN
    IF reversePath.kind # "null" THEN reversePath
    ELSE bfsPath(g, source, target, "out")

\* The search along the out-edges alone.
findShortestPathForwardOnly(g, source, target) ==
    LET forwardPath == bfsPath(g, source, target, "out") IN
    IF forwardPath.kind # "null" THEN forwardPath ELSE NoPath

findShortestPath(g, source, target) ==
    LET forwardPath == bfsPath(g, source, target, "out") IN
    IF forwardPath.kind # "null" THEN forwardPath
    ELSE LET reversePath == bfsPath(g, source, target, "in") IN
         IF reversePath.kind # "null" THEN reversePath
         ELSE NoPath

\* ------------------------------------------------------- impact analysis
RECURSIVE ImpactQueue(_, _, _, _)
RECURSIVE ImpactNeighbors(_, _, _, _, _, _)
ImpactNeighbors(g, direction, nbrs, i, found, queue) ==
    IF i > Len(nbrs) THEN ImpactQueue(g, direction, found, queue)
    ELSE IF \E k \in 1..Len(found) : found[k] = nbrs[i]
    THEN ImpactNeighbors(g, direction, nbrs, i + 1, found, queue)
    ELSE ImpactNeighbors(g, direction, nbrs, i + 1,
                         Append(found, nbrs[i]), Append(queue, nbrs[i]))

ImpactQueue(g, direction, found, queue) ==
    IF queue = <<>> THEN NodeList(found)
    ELSE IF ~hasNode(Head(queue)) THEN NotFoundError
    ELSE ImpactNeighbors(g, direction, neighborsOf(g, Head(queue), direction),
                         1, found, Tail(queue))

getReverseDependenciesOut(g, nodeId) == ImpactQueue(g, "out", <<>>, <<nodeId>>)

getReverseDependencies(g, nodeId) == ImpactQueue(g, "in", <<>>, <<nodeId>>)

getTransitiveDependencies(g, nodeId) == ImpactQueue(g, "out", <<>>, <<nodeId>>)

\* ------------------------------------------------------- cycleDetector.ts
\* path.indexOf(x): the first index of x in path, 0 when it is absent (-1).
indexOf(path, x) ==
    IF \E k \in 1..Len(path) : path[k] = x
    THEN CHOOSE k \in 1..Len(path) :
            path[k] = x /\ \A j \in 1..(k - 1) : path[j] # x
    ELSE 0

ExtractCycleOpen(path, cycleStart, neighbor) == SubSeq(path, cycleStart, Len(path))

\* path.slice(cycleStart) and the closing cycle.push(neighbor)
ExtractCycle(path, cycleStart, neighbor) ==
    Append(SubSeq(path, cycleStart, Len(path)), neighbor)

RECURSIVE dfs(_, _, _, _)
RECURSIVE DfsNeighbors(_, _, _, _, _, _)
DfsNeighbors(g, node, path, nbrs, i, st) ==
    IF i > Len(nbrs) THEN st
    ELSE LET neighbor == nbrs[i] IN
         IF neighbor \notin st.visited
         THEN DfsNeighbors(g, node, path, nbrs, i + 1, dfs(g, neighbor, path, st))
         ELSE IF neighbor \in st.recursionStack
         THEN LET cycleStart == indexOf(path, neighbor) IN
              IF cycleStart # 0
              THEN DfsNeighbors(g, node, path, nbrs, i + 1,
                     [st EXCEPT !.cycles =
                        Append(@, ExtractCycle(path, cycleStart, neighbor))])
              ELSE DfsNeighbors(g, node, path, nbrs, i + 1, st)
         ELSE DfsNeighbors(g, node, path, nbrs, i + 1, st)

\* dfs(node, path) with path the caller's copy; st is the closure state
\* (visited, recursionStack, cycles) the call leaves behind, and entries the
\* nodes dfs was called for, in the order of the calls.
dfs(g, node, path, st) ==
    LET entered == [st EXCEPT !.visited = @ \cup {node},
                              !.recursionStack = @ \cup {node},
                              !.entries = Append(@, node)]
        after == DfsNeighbors(g, node, Append(path, node),
                              outNeighbors(g, node), 1, entered)
    IN [after EXCEPT !.recursionStack = @ \ {node}]

CyclesFromFirst(g, i, st) == dfs(g, NodeOrder[i], <<>>, st)

\* graph.forEachNode: a dfs from every node not visited yet.
RECURSIVE CyclesFrom(_, _, _)
CyclesFrom(g, i, st) ==
    IF i > Len(NodeOrder) THEN st
    ELSE IF NodeOrder[i] \notin st.visited
    THEN CyclesFrom(g, i + 1, dfs(g, NodeOrder[i], <<>>, st))
    ELSE CyclesFrom(g, i + 1, st)

NoSearch == [visited |-> {}, recursionStack |-> {}, cycles |-> <<>>, entries |-> <<>>]

findCycles(g) == CyclesFrom(g, 1, NoSearch).cycles

\* hasCycles: the test of a visited neighbor.
OnStackOrVisited(st, neighbor) == TRUE
OnStack(st, neighbor) == neighbor \in st.recursionStack

\* The dfs of hasCycles; st is the closure state (visited, recursionStack),
\* the value the call returns (hasCycle) and the nodes it was called for.
RECURSIVE hasCyclesDfs(_, _, _)
RECURSIVE HasCycleNeighbors(_, _, _, _)
HasCycleNeighbors(g, nbrs, i, st) ==
    IF i > Len(nbrs) THEN st
    ELSE LET neighbor == nbrs[i] IN
         IF st.hasCycle THEN HasCycleNeighbors(g, nbrs, i + 1, st)
         ELSE IF neighbor \notin st.visited
         THEN HasCycleNeighbors(g, nbrs, i + 1, hasCyclesDfs(g, neighbor, st))
         ELSE IF OnStack(st, neighbor)
         THEN HasCycleNeighbors(g, nbrs, i + 1, [st EXCEPT !.hasCycle = TRUE])
         ELSE HasCycleNeighbors(g, nbrs, i + 1, st)

hasCyclesDfs(g, node, st) ==
    LET entered == [st EXCEPT !.visited = @ \cup {node},
                              !.recursionStack = @ \cup {node},
                              !.entries = Append(@, node),
                              !.hasCycle = FALSE]
        after == HasCycleNeighbors(g, outNeighbors(g, node), 1, entered)
    IN [after EXCEPT !.recursionStack = @ \ {node}]

\* graph.forEachNode of hasCycles: nothing more once result is true.
RECURSIVE HasCyclesFrom(_, _, _)
HasCyclesFrom(g, i, st) ==
    IF i > Len(NodeOrder) THEN st
    ELSE IF st.hasCycle THEN HasCyclesFrom(g, i + 1, st)
    ELSE IF NodeOrder[i] \notin st.visited
    THEN HasCyclesFrom(g, i + 1, hasCyclesDfs(g, NodeOrder[i], st))
    ELSE HasCyclesFrom(g, i + 1, st)

hasCyclesSearch(g) ==
    HasCyclesFrom(g, 1, [visited |-> {}, recursionStack |-> {},
                         entries |-> <<>>, hasCycle |-> FALSE])

hasCycles(g) == hasCyclesSearch(g).hasCycle

\* ------------------------------------------------------- numbers
\* Coordinates are fixed-point numbers: Unit stands for 1.0, and a division or
\* a square root rounds to the nearest representable value, as the
\* floating-point operations of the source do.
Unit == 10

RoundDiv(a, b) == (2 * a + b) \div (2 * b)

RECURSIVE SqrtIter(_, _)
SqrtIter(n, x) ==
    LET y == (x + n \div x) \div 2 IN IF y >= x THEN x ELSE SqrtIter(n, y)

FloorSqrt(n) == IF n <= 0 THEN 0 ELSE SqrtIter(n, n)

\* Math.sqrt
Sqrt(n) == LET r == FloorSqrt(n) IN IF n - r * r > r THEN r + 1 ELSE r

Pt(px, py) == [x |-> px, y |-> py]

\* ------------------------------------------------------- hulls.ts
cross(o, a, b) == (a.x - o.x) * (b.y - o.y) - (a.y - o.y) * (b.x - o.x)

\* The pivot of grahamScan: the index of the first point with the lowest y
\* (and the lowest x among those).
RECURSIVE PivotIndex(_, _, _)
PivotIndex(points, i, best) ==
    IF i > Len(points) THEN best
    ELSE IF points[i].y < points[best].y
            \/ (points[i].y = points[best].y /\ points[i].x < points[best].x)
    THEN PivotIndex(points, i + 1, i)
    ELSE PivotIndex(points, i + 1, best)

\* The direction Math.atan2(dy, dx) measures: atan2(0, 0) is 0, the angle of
\* the positive x axis.
AngleDir(p, pivot) ==
    IF p.x = pivot.x /\ p.y = pivot.y THEN Pt(1, 0)
    ELSE Pt(p.x - pivot.x, p.y - pivot.y)

\* The sign of angleA - angleB for two points not below the pivot: both
\* angles are in [0, pi), where the angles compare as the cross product does.
AngleDiff(a, b, pivot) ==
    LET da == AngleDir(a, pivot)
        db == AngleDir(b, pivot)
        c == da.x * db.y - da.y * db.x
    IN IF c > 0 THEN -1 ELSE IF c < 0 THEN 1 ELSE 0

\* The comparator of grahamScan's sort: by polar angle, then closer first.
PolarCompare(a, b, pivot) ==
    IF AngleDiff(a, b, pivot) # 0 THEN AngleDiff(a, b, pivot)
    ELSE LET distA == (a.x - pivot.x) * (a.x - pivot.x) + (a.y - pivot.y) * (a.y - pivot.y)
             distB == (b.x - pivot.x) * (b.x - pivot.x) + (b.y - pivot.y) * (b.y - pivot.y)
         IN distA - distB

\* Array.prototype.sort is stable: p goes behind every element not after it.
RECURSIVE InsertSorted(_, _, _)
InsertSorted(sorted, p, pivot) ==
    IF sorted = <<>> THEN <<p>>
    ELSE IF PolarCompare(sorted[Len(sorted)], p, pivot) <= 0 THEN Append(sorted, p)
    ELSE Append(InsertSorted(SubSeq(sorted, 1, Len(sorted) - 1), p, pivot),
                sorted[Len(sorted)])

RECURSIVE SortByAngle(_, _, _, _)
SortByAngle(points, i, pivot, sorted) ==
    IF i > Len(points) THEN sorted
    ELSE SortByAngle(points, i + 1, pivot, InsertSorted(sorted, points[i], pivot))

\* The scan that pops on a clockwise turn only, and keeps collinear points.
RECURSIVE PopClockwiseOnly(_, _)
PopClockwiseOnly(hull, p) ==
    IF Len(hull) > 1 /\ cross(hull[Len(hull) - 1], hull[Len(hull)], p) < 0
    THEN PopClockwiseOnly(SubSeq(hull, 1, Len(hull) - 1), p)
    ELSE hull

RECURSIVE PopClockwise(_, _)
PopClockwise(hull, p) ==
    IF Len(hull) > 1 /\ cross(hull[Len(hull) - 1], hull[Len(hull)], p) <= 0
    THEN PopClockwise(SubSeq(hull, 1, Len(hull) - 1), p)
    ELSE hull

RECURSIVE ScanHull(_, _, _)
ScanHull(sorted, i, hull) ==
    IF i > Len(sorted) THEN hull
    ELSE ScanHull(sorted, i + 1, Append(PopClockwise(hull, sorted[i]), sorted[i]))

grahamScan(points) ==
    IF Len(points) < 3 THEN points
    ELSE LET pi == PivotIndex(points, 1, 1)
             pivot == points[pi]
             rest == SubSeq(points, 1, pi - 1) \o SubSeq(points, pi + 1, Len(points))
             sorted == SortByAngle(rest, 1, pivot, <<>>)
         IN ScanHull(sorted, 1, <<pivot>>)

ExpandPoint(p, center, pad) ==
    LET dx == p.x - center.x
        dy == p.y - center.y
        dist == Sqrt(dx * dx + dy * dy)
    IN IF dist = 0 THEN Pt(p.x + pad, p.y)
       ELSE Pt(center.x + RoundDiv(dx * (dist + pad), dist),
               center.y + RoundDiv(dy * (dist + pad), dist))

expandHull(points, center, pad) ==
    [i \in 1..Len(points) |-> ExpandPoint(points[i], center, pad)]

ensureHullVolume(points, minPadding) ==
    IF Len(points) >= 3 THEN points
    ELSE IF Len(points) = 1
    THEN LET p == points[1] IN
         << Pt(p.x - minPadding, p.y - minPadding),
            Pt(p.x + minPadding, p.y - minPadding),
            Pt(p.x + minPadding, p.y + minPadding),
            Pt(p.x - minPadding, p.y + minPadding) >>
    ELSE LET p1 == points[1]
             p2 == points[2]
             dx == p2.x - p1.x
             dy == p2.y - p1.y
             len == Sqrt(dx * dx + dy * dy)
             perpX == IF len > 0 THEN RoundDiv((-dy) * minPadding, len) ELSE minPadding
             perpY == IF len > 0 THEN RoundDiv(dx * minPadding, len) ELSE 0
         IN << Pt(p1.x + perpX, p1.y + perpY),
               Pt(p2.x + perpX, p2.y + perpY),
               Pt(p2.x - perpX, p2.y - perpY),
               Pt(p1.x - perpX, p1.y - perpY) >>

\* A package path is the sequence of its characters, "a/b" being
\* <<"a", "/", "b">>, and the root package "" the empty sequence.
startsWith(str, prefix) ==
    Len(prefix) <= Len(str) /\ SubSeq(str, 1, Len(prefix)) = prefix

isDescendant(child, parent) == startsWith(child, parent \o <<"/">>)

getPackageDepth(pkg) == Cardinality({i \in 1..Len(pkg) : pkg[i] = "/"})

\* Step 1 of computePackageHulls: packageNodes.get(pkg).points.push(pt), the
\* Map keeping the packages in the order they were first seen.
AddPoint(groups, pkg, pt) ==
    IF \E k \in 1..Len(groups) : groups[k].package = pkg
    THEN [k \in 1..Len(groups) |->
            IF groups[k].package = pkg
            THEN [groups[k] EXCEPT !.points = Append(@, pt)]
            ELSE groups[k]]
    ELSE Append(groups, [package |-> pkg, points |-> <<pt>>])

\* Step 1 without the test of attrs.hidden.
RECURSIVE GroupNodesHiddenToo(_, _, _)
GroupNodesHiddenToo(at, i, groups) ==
    IF i > Len(at) THEN groups
    ELSE GroupNodesHiddenToo(at, i + 1,
                             AddPoint(groups, at[i].package, Pt(at[i].x, at[i].y)))

RECURSIVE GroupNodes(_, _, _)
GroupNodes(at, i, groups) ==
    IF i > Len(at) THEN groups
    ELSE IF at[i].hidden THEN GroupNodes(at, i + 1, groups)
    ELSE GroupNodes(at, i + 1,
                    AddPoint(groups, at[i].package, Pt(at[i].x, at[i].y)))

\* Step 2: the points of pkg itself and of every package isDescendant accepts.
RECURSIVE CollectPoints(_, _, _)
CollectPoints(groups, k, pkg) ==
    IF k > Len(groups) THEN <<>>
    ELSE IF groups[k].package = pkg \/ isDescendant(groups[k].package, pkg)
    THEN groups[k].points \o CollectPoints(groups, k + 1, pkg)
    ELSE CollectPoints(groups, k + 1, pkg)

RECURSIVE SumX(_)
SumX(points) == IF points = <<>> THEN 0 ELSE Head(points).x + SumX(Tail(points))

RECURSIVE SumY(_)
SumY(points) == IF points = <<>> THEN 0 ELSE Head(points).y + SumY(Tail(points))

Centroid(points) ==
    Pt(RoundDiv(SumX(points), Len(points)), RoundDiv(SumY(points), Len(points)))

\* One PackageHull; allPoints is the local list the hull was built from.
HullOf(groups, pkg, pad) ==
    LET allPoints == CollectPoints(groups, 1, pkg)
        center == Centroid(allPoints)
        hullPoints == ensureHullVolume(grahamScan(allPoints), pad)
    IN [package |-> pkg,
        points |-> expandHull(hullPoints, center, pad),
        center |-> center,
        depth |-> getPackageDepth(pkg),
        allPoints |-> allPoints]

computePackageHulls(at, pad) ==
    LET groups == GroupNodes(at, 1, <<>>) IN
    [k \in 1..Len(groups) |-> HullOf(groups, groups[k].package, pad)]

\* ------------------------------------------------------- the package hierarchy
\* packagePath.split('/'), and no segment for the root package "".
RECURSIVE SplitFrom(_, _, _)
SplitFrom(str, i, segment) ==
    IF i > Len(str) THEN <<segment>>
    ELSE IF str[i] = "/" THEN <<segment>> \o SplitFrom(str, i + 1, <<>>)
    ELSE SplitFrom(str, i + 1, Append(segment, str[i]))

Segments(packagePath) ==
    IF packagePath = <<>> THEN <<>> ELSE SplitFrom(packagePath, 1, <<>>)

\* buildPackageTree puts the tree node of child below the tree node of
\* parent: the segments of parent lead to it from the root, and those of
\* child lead on from there.
InSubtreeOf(child, parent) ==
    LET c == Segments(child)
        q == Segments(parent)
    IN Len(q) < Len(c) /\ SubSeq(c, 1, Len(q)) = q

\* ------------------------------------------------------- the analysis machine
\* parseGraph's second pass: an edge for a dependency between two nodes of the
\* graph that has no edge yet (a self-dependency makes addEdge throw: the
\* graph is built with allowSelfLoops: false).
AddEdge(s, t) ==
    /\ call = NoCall
    /\ Len(edges) < MaxEdges
    /\ hasNode(s) /\ hasNode(t) /\ s # t
    /\ ~hasEdge(edges, s, t)
    /\ edges' = Append(edges, <<s, t>>)
    /\ call' = NoCall
    /\ ret' = NoReturn
    /\ UNCHANGED exceptAnalysis

FindShortestPath(s, t) ==
    /\ call = NoCall
    /\ call' = [fn |-> "findShortestPath", a |-> s, b |-> t]
    /\ ret' = findShortestPath(edges, s, t)
    /\ UNCHANGED <<edges, exceptAnalysis>>

FindCycles ==
    /\ call = NoCall
    /\ call' = [fn |-> "findCycles", a |-> AbsentId, b |-> AbsentId]
    /\ ret' = CycleList(findCycles(edges))
    /\ UNCHANGED <<edges, exceptAnalysis>>

GetReverseDependencies(n) ==
    /\ call = NoCall
    /\ call' = [fn |-> "getReverseDependencies", a |-> n, b |-> AbsentId]
    /\ ret' = getReverseDependencies(edges, n)
    /\ UNCHANGED <<edges, exceptAnalysis>>

GetTransitiveDependencies(n) ==
    /\ call = NoCall
    /\ call' = [fn |-> "getTransitiveDependencies", a |-> n, b |-> AbsentId]
    /\ ret' = getTransitiveDependencies(edges, n)
    /\ UNCHANGED <<edges, exceptAnalysis>>

\* handleClear: the panel forgets the result it shows.
HandleClear ==
    /\ call # NoCall
    /\ call' = NoCall
    /\ ret' = NoReturn
    /\ UNCHANGED <<edges, exceptAnalysis>>

HullIdle ==
    /\ attrs = <<>>
    /\ padding = 0
    /\ hulls = <<>>

AnalysisIdle ==
    /\ edges = <<>>
    /\ call = NoCall
    /\ ret = NoReturn

Init ==
    /\ AnalysisIdle
    /\ HullIdle
    /\ EffectsIdle
    /\ LayoutIdle

Next ==
    \/ \E s \in Nodes, t \in Nodes : AddEdge(s, t)
    \/ \E s \in Ids, t \in Ids : FindShortestPath(s, t)
    \/ FindCycles
    \/ \E n \in Nodes : GetReverseDependencies(n)
    \/ \E n \in Nodes : GetTransitiveDependencies(n)
    \/ HandleClear

Spec == Init /\ [][Next]_vars

\* ------------------------------------------------------- graph reference notions
EdgeSet(g) == {g[i] : i \in 1..Len(g)}

\* The sequences of pairwise distinct nodes.
SimpleSeqs ==
    {p \in UNION {[1..k -> Nodes] : k \in 1..MaxNodes} :
        \A i, j \in 1..Len(p) : i # j => p[i] # p[j]}

\* Every consecutive pair (u, v) of p is an edge u -> v.
FollowsEdges(E, p) == \A i \in 1..(Len(p) - 1) : <<p[i], p[i + 1]>> \in E

\* Every consecutive pair (u, v) of p is an edge v -> u.
AgainstEdges(E, p) == \A i \in 1..(Len(p) - 1) : <<p[i + 1], p[i]>> \in E

\* The simple directed paths from s to t (<<s>> when s = t).
OutPaths(E, s, t) ==
    {p \in SimpleSeqs : p[1] = s /\ p[Len(p)] = t /\ FollowsEdges(E, p)}

InPaths(E, s, t) ==
    {p \in SimpleSeqs : p[1] = s /\ p[Len(p)] = t /\ AgainstEdges(E, p)}

\* The nodes that the nodes of S have a directed path to (themselves included).
RECURSIVE ReachableFrom(_, _)
ReachableFrom(E, S) ==
    LET T == S \cup {e[2] : e \in {d \in E : d[1] \in S}} IN
    IF T = S THEN S ELSE ReachableFrom(E, T)

\* There is a directed path from s to t (of no edge when s = t).
Reaches(E, s, t) == t \in ReachableFrom(E, {s})

Elems(seq) == {seq[i] : i \in 1..Len(seq)}

NoDuplicates(seq) == \A i, j \in 1..Len(seq) : i # j => seq[i] # seq[j]

PathCall == call.fn = "findShortestPath"

\* ------------------------------------------------------- claims on the analysis
\* C1: when target is reachable from source along out-edges, findShortestPath
\* returns a path from source to target whose consecutive pairs are edges
\* u -> v and that has the fewest edges of all directed paths from source to
\* target; for source = target it is <<source>>.
ShortestPathIsShortest ==
    (PathCall /\ call.a \in Nodes /\ call.b \in Nodes
        /\ Reaches(EdgeSet(edges), call.a, call.b)) =>
    /\ ret.kind = "path"
    /\ Len(ret.path) >= 1
    /\ ret.path[1] = call.a
    /\ ret.path[Len(ret.path)] = call.b
    /\ FollowsEdges(EdgeSet(edges), ret.path)
    /\ \A p \in OutPaths(EdgeSet(edges), call.a, call.b) : Len(ret.path) <= Len(p)
    /\ (call.a = call.b => ret.path = <<call.a>>)

\* A direct edge was preferred to a two-edge path that also exists.
ShorterOfTwoWitness ==
    /\ PathCall /\ ret.kind = "path" /\ Len(ret.path) = 2
    /\ \E p \in OutPaths(EdgeSet(edges), call.a, call.b) : Len(p) = 3

\* C2 as stated: a returned path follows out-edges only, and a target that is
\* not reachable along out-edges gives null.
OnlyOutEdgesFollowed ==
    (PathCall /\ call.a \in Nodes /\ call.b \in Nodes) =>
    /\ (ret.kind = "path" => FollowsEdges(EdgeSet(edges), ret.path))
    /\ (~Reaches(EdgeSet(edges), call.a, call.b) => ret.kind = "null")

\* C2 amended: out-edges are followed first and in-edges only when that found
\* nothing: a returned path either follows the edges, or the target is not
\* reachable along out-edges and the path runs against the edges; null is
\* returned exactly when the target is reachable in neither direction.
OutEdgesFirstThenInEdges ==
    (PathCall /\ call.a \in Nodes /\ call.b \in Nodes) =>
    /\ ret.kind \in {"path", "null"}
    /\ (ret.kind = "path" =>
          /\ ret.path[1] = call.a /\ ret.path[Len(ret.path)] = call.b
          /\ \/ FollowsEdges(EdgeSet(edges), ret.path)
             \/ /\ ~Reaches(EdgeSet(edges), call.a, call.b)
                /\ AgainstEdges(EdgeSet(edges), ret.path))
    /\ (ret.kind = "null" <=>
          /\ ~Reaches(EdgeSet(edges), call.a, call.b)
          /\ ~Reaches(EdgeSet(edges), call.b, call.a))

\* A path against the edges was returned.
ReversePathWitness ==
    /\ PathCall /\ ret.kind = "path" /\ Len(ret.path) = 3
    /\ ~Reaches(EdgeSet(edges), call.a, call.b)
    /\ AgainstEdges(EdgeSet(edges), ret.path)

\* C3 as stated: an id that is no node of the graph gives NotFound, never
\* null, and no returned path holds an id that is no node.
AbsentNodeIsNotFound ==
    PathCall =>
    /\ ((call.a \notin Nodes \/ call.b \notin Nodes) => ret.kind = "NotFound")
    /\ (ret.kind = "path" => Elems(ret.path) \subseteq Nodes)

\* C6: the dependents of n are the nodes other than n with a directed path to
\* n, the dependencies of n those n has a directed path to, and neither list
\* holds a node twice.
ImpactIsReachability ==
    /\ (call.fn = "getReverseDependencies" =>
          /\ ret.kind = "nodes"
          /\ NoDuplicates(ret.path)
          /\ \A m \in Nodes \ {call.a} :
               m \in Elems(ret.path) <=> Reaches(EdgeSet(edges), m, call.a))
    /\ (call.fn = "getTransitiveDependencies" =>
          /\ ret.kind = "nodes"
          /\ NoDuplicates(ret.path)
          /\ \A m \in Nodes \ {call.a} :
               m \in Elems(ret.path) <=> Reaches(EdgeSet(edges), call.a, m))

\* The dependents of the last node of a chain of two edges were asked for.
ImpactWitness ==
    /\ call.fn = "getReverseDependencies"
    /\ Len(ret.path) = 2
    /\ call.a \notin Elems(ret.path)
    /\ \E m \in Elems(ret.path) : <<m, call.a>> \notin EdgeSet(edges)

\* C7 as stated: the start node is never in the result.
StartNodeExcluded ==
    call.fn \in {"getReverseDependencies", "getTransitiveDependencies"} =>
        call.a \notin Elems(ret.path)

\* ------------------------------------------------------- claims on the cycles
\* The edges of the cycle through the nodes of p in order.
CycleEdges(p) ==
    {<<p[i], p[(i % Len(p)) + 1]>> : i \in 1..Len(p)}

\* The edges of the graph form exactly one simple directed cycle.
OneSimpleCycle(E) ==
    \E p \in SimpleSeqs : Len(p) >= 2 /\ E = CycleEdges(p)

\* No node has a directed path of one or more edges back to itself.
Acyclic(E) == \A e \in E : ~Reaches(E, e[2], e[1])

\* C4: a graph whose edges form exactly one simple directed cycle gives
\* exactly one cycle, on exactly the nodes of that cycle; an acyclic graph
\* gives the empty list.
OneCycleFoundOnce ==
    call.fn = "findCycles" =>
    /\ (OneSimpleCycle(EdgeSet(edges)) =>
          /\ Len(ret.list) = 1
          /\ Elems(ret.list[1]) = {e[1] : e \in EdgeSet(edges)})
    /\ (Acyclic(EdgeSet(edges)) => ret.list = <<>>)

\* The cycle of three nodes was searched.
OneCycleWitness ==
    /\ call.fn = "findCycles"
    /\ OneSimpleCycle(EdgeSet(edges))
    /\ Len(edges) = 3
    /\ Len(ret.list) = 1

\* C5: every list findCycles returns is a directed cycle: it ends where it
\* starts, has at least 3 entries, repeats no node but that endpoint, and
\* every consecutive pair (u, v) is an edge u -> v.
EveryCycleIsReal ==
    call.fn = "findCycles" =>
    \A k \in 1..Len(ret.list) :
        LET c == ret.list[k] IN
        /\ Len(c) >= 3
        /\ c[1] = c[Len(c)]
        /\ NoDuplicates(SubSeq(c, 1, Len(c) - 1))
        /\ FollowsEdges(EdgeSet(edges), c)

\* A cycle was cut out of a longer DFS stack: the search started at node 1,
\* which leads to the cycle without being on it.
CycleBehindTailWitness ==
    /\ call.fn = "findCycles"
    /\ Len(ret.list) = 1
    /\ Len(ret.list[1]) = 3
    /\ 1 \notin Elems(ret.list[1])
    /\ <<1, ret.list[1][1]>> \in EdgeSet(edges)

\* ------------------------------------------------------- the hull machine
HullNodes == 1..MaxHullNodes

\* The package paths "", "a", "a/b" and "ab".
PackagePaths == {<<>>, <<"a">>, <<"a", "/", "b">>, <<"a", "b">>}

Positions == {Pt(i * GridStep * Unit, j * GridStep * Unit) : i \in 0..GridX, j \in 0..GridY}

\* The padding of computePackageHulls: its default and HullRenderer's.
DefaultPadding == 20
RendererPadding == 30
Paddings == {DefaultPadding * Unit, RendererPadding * Unit}

\* A graph as parseGraph leaves it (every node visible), positioned by a layout.
InitHull ==
    /\ AnalysisIdle
    /\ EffectsIdle
    /\ attrs \in [HullNodes -> [x : {p.x : p \in Positions},
                                y : {p.y : p \in Positions},
                                package : PackagePaths,
                                hidden : {FALSE}]]
    /\ padding = 0
    /\ hulls = <<>>
    /\ LayoutIdle

\* useFilters hides a node.
HideNode(n) ==
    /\ padding = 0
    /\ ~attrs[n].hidden
    /\ attrs' = [attrs EXCEPT ![n].hidden = TRUE]
    /\ UNCHANGED <<padding, hulls, exceptHull>>

ComputePackageHulls(pad) ==
    /\ padding = 0
    /\ padding' = pad
    /\ hulls' = computePackageHulls(attrs, pad)
    /\ UNCHANGED <<attrs, exceptHull>>

NextHull ==
    \/ \E n \in HullNodes : HideNode(n)
    \/ \E pad \in Paddings : ComputePackageHulls(pad)

SpecHull == InitHull /\ [][NextHull]_vars

\* ------------------------------------------------------- geometric reference notions
Abs(v) == IF v < 0 THEN -v ELSE v

Min3(u, v, w) == IF u <= v /\ u <= w THEN u ELSE IF v <= w THEN v ELSE w

Max3(u, v, w) == IF u >= v /\ u >= w THEN u ELSE IF v >= w THEN v ELSE w

\* What a rounding of one fixed-point step in each coordinate of a, b and q
\* can change cross(a, b, q) by.
Slack(a, b, q) ==
    2 * (Abs(b.x - a.x) + Abs(b.y - a.y) + Abs(q.x - a.x) + Abs(q.y - a.y) + 1)

\* q is in the closed triangle a b c, whichever way round it is given.
InTriangle(a, b, c, q) ==
    LET d1 == cross(a, b, q)
        d2 == cross(b, c, q)
        d3 == cross(c, a, q)
    IN /\ \/ d1 >= -Slack(a, b, q) /\ d2 >= -Slack(b, c, q) /\ d3 >= -Slack(c, a, q)
          \/ d1 <= Slack(a, b, q) /\ d2 <= Slack(b, c, q) /\ d3 <= Slack(c, a, q)
       /\ q.x >= Min3(a.x, b.x, c.x) - 1 /\ q.x <= Max3(a.x, b.x, c.x) + 1
       /\ q.y >= Min3(a.y, b.y, c.y) - 1 /\ q.y <= Max3(a.y, b.y, c.y) + 1

\* q is inside or on the polygon poly, whose vertices lie around center in
\* angular order (expandHull moves each vertex along its ray from center): in
\* one of the triangles center, poly[i], poly[i + 1].
InsidePolygon(poly, center, q) ==
    \E i \in 1..Len(poly) :
        InTriangle(center, poly[i], poly[(i % Len(poly)) + 1], q)

\* Twice the signed area of poly (the shoelace sum): positive when the
\* vertices run counter-clockwise, negative when they run clockwise.
RECURSIVE Shoelace(_, _)
Shoelace(poly, i) ==
    IF i > Len(poly) THEN 0
    ELSE LET a == poly[i]
             b == poly[(i % Len(poly)) + 1]
         IN (a.x * b.y - b.x * a.y) + Shoelace(poly, i + 1)

NodePoint(n) == Pt(attrs[n].x, attrs[n].y)

HullsComputed == padding > 0

\* ------------------------------------------------------- claims on the hulls
\* Every point a hull was built from lies inside or on its polygon.
HullContainsItsPoints ==
    HullsComputed =>
    \A k \in 1..Len(hulls) : \A i \in 1..Len(hulls[k].allPoints) :
        InsidePolygon(hulls[k].points, hulls[k].center, hulls[k].allPoints[i])

\* C8 as stated: the hull of package P contains every visible node of P and
\* of the packages below P in the hierarchy.
HullContainsDescendantNodes ==
    HullsComputed =>
    \A k \in 1..Len(hulls) : \A n \in HullNodes :
        (/\ ~attrs[n].hidden
         /\ \/ attrs[n].package = hulls[k].package
            \/ InSubtreeOf(attrs[n].package, hulls[k].package))
        => InsidePolygon(hulls[k].points, hulls[k].center, NodePoint(n))

\* C9 as stated: the hull of a package is built from a superset of the
\* positions the hull of each package below it is built from, the root
\* package "" being above every other package.
HullInputsGrowUpward ==
    HullsComputed =>
    \A k, j \in 1..Len(hulls) :
        InSubtreeOf(hulls[j].package, hulls[k].package)
        => Elems(hulls[j].allPoints) \subseteq Elems(hulls[k].allPoints)

\* C10 as stated: every hull polygon lists its points counter-clockwise, so
\* none lists them clockwise (a polygon of zero area runs neither way).
HullsCounterClockwise ==
    HullsComputed =>
    \A k \in 1..Len(hulls) : Shoelace(hulls[k].points, 1) >= 0

\* The points are one point, two points, or points all on one line (points
\* at the same place included).
DegeneratePoints(points) ==
    \A i, j, k \in 1..Len(points) : cross(points[i], points[j], points[k]) = 0

\* C11 as stated: a package whose visible points are degenerate gets a
\* polygon of four vertices that has strictly positive area.
DegenerateHullHasArea ==
    HullsComputed =>
    \A k \in 1..Len(hulls) :
        DegeneratePoints(hulls[k].allPoints) =>
            /\ Len(hulls[k].points) = 4
            /\ Shoelace(hulls[k].points, 1) # 0

\* ------------------------------------------------------- the graph of the layout
\* parseGraph's first pass: the targets of one package after those of
\* another become the nodes, so node i is the i-th target in that order and
\* NodePackages(tg)[i] is its package attribute.
RECURSIVE NodePackages(_)
NodePackages(tg) ==
    IF tg = <<>> THEN <<>>
    ELSE [i \in 1..Head(tg).count |-> Head(tg).package] \o NodePackages(Tail(tg))

\* ------------------------------------------------------- packageTree.ts
\* graph.forEachNode over the nodes of one target list entry, which have
\* consecutive ids and the same package: nodesByPackage.get(pkg).push(nodeId)
\* for each of them, the Map keeping the packages in the order they were
\* first seen.
AddNodeIds(groups, pkg, firstId, count) ==
    LET nodeIds == [i \in 1..count |-> firstId + i - 1] IN
    IF \E k \in 1..Len(groups) : groups[k].package = pkg
    THEN [k \in 1..Len(groups) |->
            IF groups[k].package = pkg
            THEN [groups[k] EXCEPT !.nodes = @ \o nodeIds]
            ELSE groups[k]]
    ELSE Append(groups, [package |-> pkg, nodes |-> nodeIds])

RECURSIVE GroupIds(_, _, _, _)
GroupIds(tg, i, firstId, groups) ==
    IF i > Len(tg) THEN groups
    ELSE GroupIds(tg, i + 1, firstId + tg[i].count,
                  AddNodeIds(groups, tg[i].package, firstId, tg[i].count))

\* segments.join('/')
RECURSIVE Join(_)
Join(segments) ==
    IF segments = <<>> THEN <<>>
    ELSE IF Len(segments) = 1 THEN segments[1]
    ELSE segments[1] \o <<"/">> \o Join(Tail(segments))

\* Bounds not assigned (undefined).
NoBounds == <<>>

\* A PackageTreeNode. The tree is the sequence of its nodes in the order they
\* were created, the root first; path is the list of segments that leads to
\* the node through the children Maps, so the children of a node are the
\* nodes whose path is one segment longer, in the order of the sequence.
\* directNodeBounds is the local of processPackageNode, kept for inspection.
NewTreeNode(segs) ==
    [path |-> segs,
     name |-> IF segs = <<>> THEN <<>> ELSE segs[Len(segs)],
     fullPath |-> Join(segs),
     nodes |-> <<>>,
     descendantNodes |-> <<>>,
     weight |-> 0,
     bounds |-> NoBounds,
     directNodeBounds |-> NoBounds]

HasTreeNode(tree, segs) == \E k \in 1..Len(tree) : tree[k].path = segs

\* The walk down the segments of one package path: the child named by the
\* segment, created when current.children does not have it.
RECURSIVE CreatePath(_, _, _)
CreatePath(tree, segments, i) ==
    IF i > Len(segments) THEN tree
    ELSE LET prefix == SubSeq(segments, 1, i) IN
         IF HasTreeNode(tree, prefix) THEN CreatePath(tree, segments, i + 1)
         ELSE CreatePath(Append(tree, NewTreeNode(prefix)), segments, i + 1)

\* current.nodes = nodeIds
SetNodes(tree, segments, nodeIds) ==
    [k \in 1..Len(tree) |->
        IF tree[k].path = segments THEN [tree[k] EXCEPT !.nodes = nodeIds]
        ELSE tree[k]]

RECURSIVE BuildStructure(_, _, _)
BuildStructure(groups, g, tree) ==
    IF g > Len(groups) THEN tree
    ELSE LET segments == Segments(groups[g].package) IN
         BuildStructure(groups, g + 1,
                        SetNodes(CreatePath(tree, segments, 1), segments,
                                 groups[g].nodes))

IsChild(tree, j, k) ==
    /\ Len(tree[j].path) = Len(tree[k].path) + 1
    /\ SubSeq(tree[j].path, 1, Len(tree[k].path)) = tree[k].path

RECURSIVE ChildrenFrom(_, _, _)
ChildrenFrom(tree, k, j) ==
    IF j > Len(tree) THEN <<>>
    ELSE IF IsChild(tree, j, k) THEN <<j>> \o ChildrenFrom(tree, k, j + 1)
    ELSE ChildrenFrom(tree, k, j + 1)

\* node.children.values(): the indices of the children of tree[k], in the
\* insertion order of the Map.
children(tree, k) == ChildrenFrom(tree, k, k + 1)

RECURSIVE ChildDescendants(_, _, _)
ChildDescendants(tree, ch, i) ==
    IF i > Len(ch) THEN <<>>
    ELSE tree[ch[i]].descendantNodes \o ChildDescendants(tree, ch, i + 1)

RECURSIVE ChildrenWeight(_, _, _)
ChildrenWeight(tree, ch, i) ==
    IF i > Len(ch) THEN 0
    ELSE tree[ch[i]].weight + ChildrenWeight(tree, ch, i + 1)

\* The weight with the floor added to it.
WeightPlusFloor(ownWeight, childrenWeight, size) ==
    ownWeight + childrenWeight + (IF size > 0 THEN 1 ELSE 0)

WeightOwnOnly(ownWeight, childrenWeight, size) == ownWeight

\* Math.max(ownWeight + childrenWeight, node.children.size > 0 ? 1 : 0)
Weight(ownWeight, childrenWeight, size) ==
    LET floor == IF size > 0 THEN 1 ELSE 0 IN
    IF ownWeight + childrenWeight >= floor THEN ownWeight + childrenWeight
    ELSE floor

DescendantNodesOfChildren(own, below) == below

\* [...node.nodes] and the push of every child's descendantNodes
DescendantNodes(own, below) == own \o below

RECURSIVE computeDescendantsAndWeights(_, _)
RECURSIVE ComputeChildren(_, _, _)
ComputeChildren(tree, ch, i) ==
    IF i > Len(ch) THEN tree
    ELSE ComputeChildren(computeDescendantsAndWeights(tree, ch[i]), ch, i + 1)

computeDescendantsAndWeights(tree, k) ==
    LET ch == children(tree, k)
        done == ComputeChildren(tree, ch, 1)
    IN [done EXCEPT
          ![k].descendantNodes =
              DescendantNodes(done[k].nodes, ChildDescendants(done, ch, 1)),
          ![k].weight =
              Weight(Len(done[k].nodes), ChildrenWeight(done, ch, 1), Len(ch))]

\* buildPackageTree(graph), the graph given by its target list.
buildPackageTree(tg) ==
    computeDescendantsAndWeights(
        BuildStructure(GroupIds(tg, 1, 1, <<>>), 1, <<NewTreeNode(<<>>)>>), 1)

\* ------------------------------------------------------- exact numbers
\* The coordinates of the treemap are rational numbers <<n, d>> in lowest
\* terms with d > 0: the arithmetic of the source without the rounding of
\* its floating-point numbers.
RECURSIVE Gcd(_, _)
Gcd(a, b) == IF b = 0 THEN a ELSE Gcd(b, a % b)

Rat(n, d) ==
    IF d = 1 THEN <<n, 1>>
    ELSE LET g == Gcd(Abs(n), d) IN <<n \div g, d \div g>>

RInt(n) == <<n, 1>>

RAdd(a, b) ==
    IF a[2] = b[2] THEN Rat(a[1] + b[1], a[2])
    ELSE LET g == Gcd(a[2], b[2]) IN
         Rat(a[1] * (b[2] \div g) + b[1] * (a[2] \div g), (a[2] \div g) * b[2])

RSub(a, b) == RAdd(a, <<-b[1], b[2]>>)

RMul(a, b) ==
    LET g1 == Gcd(Abs(a[1]), b[2])
        g2 == Gcd(Abs(b[1]), a[2])
    IN Rat((a[1] \div g1) * (b[1] \div g2), (a[2] \div g2) * (b[2] \div g1))

RLess(a, b) ==
    IF a[2] = b[2] THEN a[1] < b[1]
    ELSE LET g == Gcd(a[2], b[2]) IN
         a[1] * (b[2] \div g) < b[1] * (a[2] \div g)

RLeq(a, b) == ~RLess(b, a)

RMax(a, b) == IF RLess(a, b) THEN b ELSE a

RMin(a, b) == IF RLess(b, a) THEN b ELSE a

Bounds(x, y, width, height) == [x |-> x, y |-> y, width |-> width, height |-> height]

\* ------------------------------------------------------- treemap.ts
Infinity == <<1, 0>>

RECURSIVE SumWeights(_)
SumWeights(row) == IF row = <<>> THEN 0 ELSE Head(row) + SumWeights(Tail(row))

\* The loop of worstAspectRatio over row[i..]: with R the weight of the row
\* and T = totalArea, itemHeight is (R / T) * width and itemWidth is
\* (w / R) * width, so itemWidth / itemHeight is (w * T) / (R * R).
RECURSIVE WorstFrom(_, _, _, _, _)
WorstFrom(row, i, rowWeight, totalArea, worst) ==
    IF i > Len(row) THEN worst
    ELSE LET q == Rat(row[i] * totalArea, rowWeight * rowWeight)
             ratio == RMax(q, <<q[2], q[1]>>)
         IN WorstFrom(row, i + 1, rowWeight, totalArea, RMax(worst, ratio))

\* row is the list of the weights of the items.
worstAspectRatio(row, width, totalArea) ==
    IF Len(row) = 0 \/ width = RInt(0) THEN Infinity
    ELSE WorstFrom(row, 1, SumWeights(row), totalArea, RInt(0))

\* candidateWorst <= currentWorst
NotWorse(candidateWorst, currentWorst) ==
    IF currentWorst = Infinity THEN TRUE
    ELSE IF candidateWorst = Infinity THEN FALSE
    ELSE RLeq(candidateWorst, currentWorst)

\* layoutRow: the items of a row side by side; the result is the list of
\* the entries [item, bounds] set in the result Map.
RECURSIVE layoutRow(_, _, _, _, _, _, _)
layoutRow(tree, row, i, bounds, totalWeight, isWide, offset) ==
    IF i > Len(row) THEN <<>>
    ELSE LET fraction == Rat(tree[row[i]].weight, totalWeight) IN
         IF isWide
         THEN LET itemHeight == RMul(bounds.height, fraction) IN
              <<[item |-> row[i],
                 bounds |-> Bounds(bounds.x, RAdd(bounds.y, offset),
                                   bounds.width, itemHeight)]>>
              \o layoutRow(tree, row, i + 1, bounds, totalWeight, isWide,
                           RAdd(offset, itemHeight))
         ELSE LET itemWidth == RMul(bounds.width, fraction) IN
              <<[item |-> row[i],
                 bounds |-> Bounds(RAdd(bounds.x, offset), bounds.y,
                                   itemWidth, bounds.height)]>>
              \o layoutRow(tree, row, i + 1, bounds, totalWeight, isWide,
                           RAdd(offset, itemWidth))

WeightsOf(tree, items) == [i \in 1..Len(items) |-> tree[items[i]].weight]

\* The greedy loop that builds one row: the number of items of
\* remainingItems the row takes.
RECURSIVE RowLength(_, _, _, _, _)
RowLength(weights, n, i, shortSide, remainingWeight) ==
    IF i > Len(weights) THEN n
    ELSE LET currentWorst ==
                 worstAspectRatio(SubSeq(weights, 1, n), shortSide, remainingWeight)
             candidateWorst ==
                 worstAspectRatio(SubSeq(weights, 1, i), shortSide, remainingWeight)
         IN IF n = 0 \/ NotWorse(candidateWorst, currentWorst)
            THEN RowLength(weights, n + 1, i + 1, shortSide, remainingWeight)
            ELSE n

\* The while loop of layoutSquarified.
RECURSIVE LayoutRows(_, _, _, _, _)
LayoutRows(tree, remainingItems, currentBounds, remainingWeight, isWide) ==
    IF remainingItems = <<>> THEN <<>>
    ELSE LET shortSide == IF isWide THEN currentBounds.height ELSE currentBounds.width
             taken == RowLength(WeightsOf(tree, remainingItems), 0, 1,
                                shortSide, remainingWeight)
             n == IF taken = 0 THEN 1 ELSE taken
             row == SubSeq(remainingItems, 1, n)
             rowWeight == SumWeights(WeightsOf(tree, row))
             rowFraction == Rat(rowWeight, remainingWeight)
             rowWidth == RMul(currentBounds.width, rowFraction)
             rowHeight == RMul(currentBounds.height, rowFraction)
             rowBounds ==
                 IF isWide
                 THEN Bounds(currentBounds.x, currentBounds.y,
                             rowWidth, currentBounds.height)
                 ELSE Bounds(currentBounds.x, currentBounds.y,
                             currentBounds.width, rowHeight)
             rest ==
                 IF isWide
                 THEN Bounds(RAdd(currentBounds.x, rowWidth), currentBounds.y,
                             RSub(currentBounds.width, rowWidth), currentBounds.height)
                 ELSE Bounds(currentBounds.x, RAdd(currentBounds.y, rowHeight),
                             currentBounds.width, RSub(currentBounds.height, rowHeight))
         IN layoutRow(tree, row, 1, rowBounds, rowWeight, isWide, RInt(0))
            \o LayoutRows(tree, SubSeq(remainingItems, n + 1, Len(remainingItems)),
                          rest, remainingWeight - rowWeight, isWide)

layoutSquarified(tree, items, bounds, totalWeight) ==
    IF Len(items) = 0 THEN <<>>
    ELSE IF Len(items) = 1 THEN <<[item |-> items[1], bounds |-> bounds]>>
    ELSE IF RLess(bounds.width, RInt(1)) \/ RLess(bounds.height, RInt(1))
    THEN [i \in 1..Len(items) |-> [item |-> items[i], bounds |-> bounds]]
    ELSE LayoutRows(tree, items, bounds, totalWeight,
                    RLeq(bounds.height, bounds.width))

\* items.sort((a, b) => b.weight - a.weight): a stable sort, heaviest first.
RECURSIVE InsertByWeight(_, _, _)
InsertByWeight(tree, sorted, item) ==
    IF sorted = <<>> THEN <<item>>
    ELSE IF tree[Head(sorted)].weight >= tree[item].weight
    THEN <<Head(sorted)>> \o InsertByWeight(tree, Tail(sorted), item)
    ELSE <<item>> \o sorted

RECURSIVE SortByWeight(_, _, _, _)
SortByWeight(tree, items, i, sorted) ==
    IF i > Len(items) THEN sorted
    ELSE SortByWeight(tree, items, i + 1, InsertByWeight(tree, sorted, items[i]))

RECURSIVE PositiveWeight(_, _)
PositiveWeight(tree, items) ==
    IF items = <<>> THEN <<>>
    ELSE IF tree[Head(items)].weight > 0
    THEN <<Head(items)>> \o PositiveWeight(tree, Tail(items))
    ELSE PositiveWeight(tree, Tail(items))

\* The result Map as the list of its entries [item, bounds], item being the
\* index of the child in the tree (siblings have different fullPaths).
squarifiedTreemap(tree, ch, bounds, totalWeight) ==
    IF Len(ch) = 0 \/ totalWeight = 0 THEN <<>>
    ELSE IF Len(ch) = 1 THEN <<[item |-> ch[1], bounds |-> bounds]>>
    ELSE layoutSquarified(tree,
                          SortByWeight(tree, PositiveWeight(tree, ch), 1, <<>>),
                          bounds, totalWeight)

padBounds(bounds, pad) ==
    [x |-> RAdd(bounds.x, RInt(pad)),
     y |-> RAdd(bounds.y, RInt(pad)),
     width |-> RMax(RInt(0), RSub(bounds.width, RInt(pad * 2))),
     height |-> RMax(RInt(0), RSub(bounds.height, RInt(pad * 2)))]

\* The strip of the inner bounds reserved for the direct nodes and the rest
\* of the inner bounds, left for the children.
DirectStrip(innerBounds, directNodeWeight, totalWeight) ==
    LET directFraction == Rat(directNodeWeight, totalWeight) IN
    IF RLeq(innerBounds.height, innerBounds.width)
    THEN Bounds(innerBounds.x, innerBounds.y,
                RMul(innerBounds.width, directFraction), innerBounds.height)
    ELSE Bounds(innerBounds.x, innerBounds.y,
                innerBounds.width, RMul(innerBounds.height, directFraction))

ChildrenStrip(innerBounds, directNodeWeight, totalWeight) ==
    LET directFraction == Rat(directNodeWeight, totalWeight) IN
    IF RLeq(innerBounds.height, innerBounds.width)
    THEN LET directWidth == RMul(innerBounds.width, directFraction) IN
         Bounds(RAdd(innerBounds.x, directWidth), innerBounds.y,
                RSub(innerBounds.width, directWidth), innerBounds.height)
    ELSE LET directHeight == RMul(innerBounds.height, directFraction) IN
         Bounds(innerBounds.x, RAdd(innerBounds.y, directHeight),
                innerBounds.width, RSub(innerBounds.height, directHeight))

ChildrenBoundsInner(innerBounds, directNodeWeight, childrenWeight) == innerBounds

\* The childrenBounds of applyTreemapToPackageTree.
ChildrenBounds(innerBounds, directNodeWeight, childrenWeight) ==
    IF directNodeWeight > 0 /\ childrenWeight > 0
    THEN ChildrenStrip(innerBounds, directNodeWeight,
                       directNodeWeight + childrenWeight)
    ELSE innerBounds

\* siblingOrderFn sorts the children by the average topological layer of
\* their nodes, with a stable sort. The graph of the layout has no
\* dependencies, every node is in generation 0 of topologicalGenerations,
\* and the order of the children is the order of the Map.
siblingOrderFn(ch) == ch

RECURSIVE applyTreemapToPackageTree(_, _, _, _, _)
RECURSIVE ApplyToChildren(_, _, _, _, _)
ApplyToChildren(tree, childBounds, i, pad, minSize) ==
    IF i > Len(childBounds) THEN tree
    ELSE ApplyToChildren(
             applyTreemapToPackageTree(tree, childBounds[i].item,
                                       childBounds[i].bounds, pad, minSize),
             childBounds, i + 1, pad, minSize)

\* applyTreemapToPackageTree(node, bounds, pad, minSize, siblingOrderFn),
\* node being tree[k].
applyTreemapToPackageTree(tree, k, bounds, pad, minSize) ==
    LET withBounds == [tree EXCEPT ![k].bounds = bounds]
        ch == children(tree, k)
        directNodeWeight == Len(tree[k].nodes)
        childrenWeight == ChildrenWeight(tree, ch, 1)
        totalWeight == directNodeWeight + childrenWeight
        innerBounds == padBounds(bounds, pad)
    IN IF Len(ch) = 0 THEN withBounds
       ELSE IF totalWeight = 0 THEN withBounds
       ELSE IF RLess(innerBounds.width, RInt(minSize))
               \/ RLess(innerBounds.height, RInt(minSize))
       THEN [j \in 1..Len(tree) |->
                IF \E i \in 1..Len(ch) : ch[i] = j
                THEN [withBounds[j] EXCEPT !.bounds = innerBounds]
                ELSE withBounds[j]]
       ELSE ApplyToChildren(
                withBounds,
                squarifiedTreemap(withBounds, siblingOrderFn(ch),
                                  ChildrenBounds(innerBounds, directNodeWeight,
                                                 childrenWeight),
                                  childrenWeight),
                1, pad, minSize)

\* ------------------------------------------------------- layout.ts, hierarchical
\* qualityPresets[quality].iterations
Iterations(quality) ==
    CASE quality = "fast" -> 75
      [] quality = "balanced" -> 150
      [] quality = "quality" -> 250

\* Math.round(iterations * 0.5)
HalfIterations(iterations) == (iterations + 1) \div 2

TreemapPadding == 20

TreemapMinSize == 50

ClampMargin == 10

BoundaryMargin == 20

BoundaryStrength == <<3, 10>>

BatchSize == 25

\* How far one run of the force iterations may carry a node: farther than
\* the canvas is wide.
Far == 3000

\* The list f with every element computed.
Computed(f) == SubSeq(f, 1, Len(f))

\* forceAtlas2.assign of the library: the node at index i of the subgraph
\* ends where the forces carry it, modelled as a displacement of Far in the
\* direction d for the nodes at odd indices and the opposite direction for
\* the others (d = (0, 0): no node moves).
forceAtlas2(pos, d) ==
    Computed([i \in 1..Len(pos) |->
        LET sign == IF i % 2 = 1 THEN 1 ELSE -1 IN
        [x |-> RAdd(pos[i].x, RInt(sign * d.x * Far)),
         y |-> RAdd(pos[i].y, RInt(sign * d.y * Far))]])

\* applyNeighborGravityForces and refineNodePositions skip the nodes that
\* have no neighbours, and the subgraph of a graph without dependencies has
\* no edges.
applyNeighborGravityForces(pos) == pos

refineNodePositions(pos) == pos

BoundaryForce(v, inner, outer, strength) ==
    LET pushed == IF RLess(v, inner)
                  THEN RAdd(v, RMul(RSub(inner, v), strength)) ELSE v
    IN IF RLess(outer, pushed)
       THEN RSub(pushed, RMul(RSub(pushed, outer), strength)) ELSE pushed

applyBoundaryForces(pos, bounds, strength) ==
    LET innerLeft == RAdd(bounds.x, RInt(BoundaryMargin))
        innerRight == RSub(RAdd(bounds.x, bounds.width), RInt(BoundaryMargin))
        innerTop == RAdd(bounds.y, RInt(BoundaryMargin))
        innerBottom == RSub(RAdd(bounds.y, bounds.height), RInt(BoundaryMargin))
    IN Computed([i \in 1..Len(pos) |->
           [x |-> BoundaryForce(pos[i].x, innerLeft, innerRight, strength),
            y |-> BoundaryForce(pos[i].y, innerTop, innerBottom, strength)]])

clampNodesToBounds(pos, bounds) ==
    LET minX == RAdd(bounds.x, RInt(ClampMargin))
        maxX == RSub(RAdd(bounds.x, bounds.width), RInt(ClampMargin))
        minY == RAdd(bounds.y, RInt(ClampMargin))
        maxY == RSub(RAdd(bounds.y, bounds.height), RInt(ClampMargin))
    IN Computed([i \in 1..Len(pos) |->
           [x |-> RMax(minX, RMin(maxX, pos[i].x)),
            y |-> RMax(minY, RMin(maxY, pos[i].y))]])

\* The loop over the batches of runBoundedForceAtlas2.
RECURSIVE Batches(_, _, _, _, _)
Batches(pos, bounds, i, batches, d) ==
    IF i >= batches THEN pos
    ELSE Batches(clampNodesToBounds(
                     applyBoundaryForces(
                         applyNeighborGravityForces(forceAtlas2(pos, d)),
                         bounds, BoundaryStrength),
                     bounds),
                 bounds, i + 1, batches, d)

\* pos is the list of the positions of the nodes of the subgraph.
runBoundedForceAtlas2(pos, bounds, totalIterations, edgeOptimization, d) ==
    IF Len(pos) = 0 THEN pos
    ELSE IF Len(pos) <= 3 THEN clampNodesToBounds(forceAtlas2(pos, d), bounds)
    ELSE LET batches == (totalIterations + BatchSize - 1) \div BatchSize
             batched == Batches(pos, bounds, 0, batches, d)
         IN IF edgeOptimization
            THEN clampNodesToBounds(refineNodePositions(batched), bounds)
            ELSE batched

\* The bounds in which processPackageNode places the direct nodes of tree[k].
DirectNodeBounds(tree, k) ==
    LET ch == children(tree, k)
        directNodeWeight == Len(tree[k].nodes)
        childrenWeight == ChildrenWeight(tree, ch, 1)
        totalWeight == directNodeWeight + childrenWeight
    IN IF Len(ch) > 0 /\ totalWeight > 0 /\ directNodeWeight > 0
       THEN DirectStrip(padBounds(tree[k].bounds, TreemapPadding),
                        directNodeWeight, totalWeight)
       ELSE tree[k].bounds

Half(v) == RMul(v, <<1, 2>>)

\* The position a node of the subgraph starts from, rnd being the value of
\* Math.random() (every node is in layer 0, so xBias is 0).
StartPosition(directNodeBounds, rnd) ==
    [x |-> RAdd(directNodeBounds.x,
                RMul(RSub(rnd, <<1, 2>>), RMul(directNodeBounds.width, <<3, 10>>))),
     y |-> RAdd(directNodeBounds.y, RMul(rnd, directNodeBounds.height))]

\* The index of nodeId in the list nodes, 0 when it is not in it; looked for
\* first where it is when the ids of the list are consecutive.
IndexOf(nodes, nodeId) ==
    LET guess == nodeId - nodes[1] + 1 IN
    IF guess \in 1..Len(nodes) /\ nodes[guess] = nodeId THEN guess
    ELSE IF \E i \in 1..Len(nodes) : nodes[i] = nodeId
    THEN CHOOSE i \in 1..Len(nodes) : nodes[i] = nodeId
    ELSE 0

\* st is [tree, pos]: the package tree and the x, y attributes of the nodes
\* of the graph.
RECURSIVE processPackageNode(_, _, _, _, _, _)
RECURSIVE ProcessChildren(_, _, _, _, _, _, _)
ProcessChildren(st, ch, i, iterations, edgeOptimization, rnd, d) ==
    IF i > Len(ch) THEN st
    ELSE ProcessChildren(
             processPackageNode(st, ch[i], iterations, edgeOptimization, rnd, d),
             ch, i + 1, iterations, edgeOptimization, rnd, d)

processPackageNode(st0, k, iterations, edgeOptimization, rnd, d) ==
    LET st == ProcessChildren(st0, children(st0.tree, k), 1,
                              iterations, edgeOptimization, rnd, d)
        nodes == st.tree[k].nodes
        directNodeBounds == DirectNodeBounds(st.tree, k)
        placed ==
            IF Len(nodes) = 1
            THEN <<[x |-> RAdd(directNodeBounds.x, Half(directNodeBounds.width)),
                    y |-> RAdd(directNodeBounds.y, Half(directNodeBounds.height))]>>
            ELSE runBoundedForceAtlas2(
                     Computed([i \in 1..Len(nodes) |->
                                  StartPosition(directNodeBounds, rnd)]),
                     directNodeBounds, HalfIterations(iterations),
                     edgeOptimization, d)
    IN IF Len(nodes) = 0 \/ st.tree[k].bounds = NoBounds THEN st
       ELSE [tree |-> [st.tree EXCEPT ![k].directNodeBounds = directNodeBounds],
             pos |-> Computed([n \in 1..Len(st.pos) |->
                         IF IndexOf(nodes, n) = 0 THEN st.pos[n]
                         ELSE placed[IndexOf(nodes, n)]])]

\* Math.max(1000, Math.sqrt(graph.order) * 150), the square root rounded to
\* a multiple of 1 / Unit.
canvasSize(order) ==
    LET root == Rat(Sqrt(order * 150 * 150 * Unit * Unit), Unit) IN
    RMax(RInt(1000), root)

applyHierarchicalLayout(tg, pos, quality, edgeOptimization, rnd, d) ==
    LET size == canvasSize(Len(NodePackages(tg)))
        corner == RSub(RInt(0), Half(size))
        rootBounds == Bounds(corner, corner, size, size)
        tree == applyTreemapToPackageTree(buildPackageTree(tg), 1, rootBounds,
                                          TreemapPadding, TreemapMinSize)
    IN processPackageNode([tree |-> tree, pos |-> pos], 1,
                          Iterations(quality), edgeOptimization, rnd, d)

\* ------------------------------------------------------- the layout of a parsed graph
\* The graphs of the layout: up to MaxPackages packages that have targets,
\* each with 1, SmallCount or Crowd targets (at most one of them a crowd).
MaxPackages == 3

SmallCount == 3

Crowd == 100

TargetCounts == {1, SmallCount, Crowd}

TargetLists ==
    UNION { [1..n -> [package : PackagePaths, count : TargetCounts]] :
            n \in 0..MaxPackages }

WellFormedTargets(tg) ==
    /\ \A i, j \in 1..Len(tg) : tg[i].package = tg[j].package => i = j
    /\ \A i, j \in 1..Len(tg) :
          tg[i].count = Crowd /\ tg[j].count = Crowd => i = j

\* Math.random() * 1000 of parseGraph, the same for x and y of every node.
ParsedCoordinates == {0, 999}

ParsedPositions(tg, c) ==
    [n \in 1..Len(NodePackages(tg)) |-> [x |-> RInt(c), y |-> RInt(c)]]

\* ------------------------------------------------------- the treemap of a package tree
\* buildPackageTree and applyTreemapToPackageTree as the functions the
\* module exports: the tree of a graph, then its treemap in a square of a
\* size of TreemapSizes with the padding and the minimum size of the layout.
TreemapSizes == {90, 1000}

InitTreemap ==
    /\ AnalysisIdle
    /\ HullIdle
    /\ EffectsIdle
    /\ \E tg \in TargetLists, c \in ParsedCoordinates :
          /\ WellFormedTargets(tg)
          /\ targets = tg
          /\ positions = ParsedPositions(tg, c)
    /\ packageTree = <<>>
    /\ applied = NoLayout

BuildPackageTree ==
    /\ packageTree = <<>>
    /\ packageTree' = buildPackageTree(targets)
    /\ UNCHANGED <<targets, positions, exceptLayout>>

ApplyTreemap(size) ==
    /\ packageTree # <<>>
    /\ packageTree[1].bounds = NoBounds
    /\ packageTree' =
           applyTreemapToPackageTree(
               packageTree, 1,
               Bounds(RSub(RInt(0), Half(RInt(size))),
                      RSub(RInt(0), Half(RInt(size))), RInt(size), RInt(size)),
               TreemapPadding, TreemapMinSize)
    /\ UNCHANGED <<targets, positions, exceptLayout>>

NextTreemap ==
    \/ BuildPackageTree
    \/ \E size \in TreemapSizes : ApplyTreemap(size)

SpecTreemap == InitTreemap /\ [][NextTreemap]_vars

\* ------------------------------------------------------- the hierarchical layout
Qualities == {"fast", "balanced", "quality"}

Randoms == { <<0, 1>>, <<1, 2>> }

\* The directions the forces carry the nodes in: none, and the two ways
\* along a diagonal.
Directions == { [x |-> v, y |-> v] : v \in {-1, 0, 1} }

\* The graphs laid out have their packages listed the shorter paths first,
\* and a crowd only at the top of the hierarchy.
InitLayout ==
    /\ AnalysisIdle
    /\ HullIdle
    /\ EffectsIdle
    /\ \E tg \in TargetLists, c \in ParsedCoordinates :
          /\ WellFormedTargets(tg)
          /\ \A i, j \in 1..Len(tg) :
                i < j => Len(tg[i].package) < Len(tg[j].package)
          /\ \A i \in 1..Len(tg) : tg[i].count = Crowd => tg[i].package = <<>>
          /\ targets = tg
          /\ positions = ParsedPositions(tg, c)
    /\ packageTree = <<>>
    /\ applied = NoLayout

\* applyLayout(graph, 'hierarchical', options) on the graph parseGraph made:
\* the tree local to applyHierarchicalLayout is kept in packageTree.
ApplyHierarchical(quality, edgeOptimization, rnd, d) ==
    /\ packageTree = <<>>
    /\ IF Len(NodePackages(targets)) = 0
       THEN UNCHANGED <<packageTree, positions>>
       ELSE \E st \in { applyHierarchicalLayout(targets, positions, quality,
                                                 edgeOptimization, rnd, d) } :
               /\ packageTree' = st.tree
               /\ positions' = st.pos
    /\ UNCHANGED <<targets, exceptLayout>>

NextLayout ==
    \E quality \in Qualities, edgeOptimization \in BOOLEAN,
       rnd \in Randoms, d \in Directions :
        ApplyHierarchical(quality, edgeOptimization, rnd, d)

SpecLayout == InitLayout /\ [][NextLayout]_vars

\* ------------------------------------------------------- properties of the package tree
TreeBuilt == packageTree # <<>>

\* The tree nodes directly below tree node k: those whose path is the path
\* of k and one more segment.
ChildSet(k) ==
    { j \in 1..Len(packageTree) :
        /\ Len(packageTree[j].path) = Len(packageTree[k].path) + 1
        /\ \A i \in 1..Len(packageTree[k].path) :
              packageTree[j].path[i] = packageTree[k].path[i] }

RECURSIVE SumOfWeights(_)
SumOfWeights(S) ==
    IF S = {} THEN 0
    ELSE LET j == CHOOSE j \in S : TRUE IN
         packageTree[j].weight + SumOfWeights(S \ {j})

\* C14: in the tree buildPackageTree returns, the weight of every tree node
\* is the number of its direct nodes plus the sum of the weights of its
\* children, or at least 1 when it has children and no direct nodes; the
\* weight of every tree node but the root is at least 1.
WeightIsOwnPlusChildren ==
    TreeBuilt =>
    \A k \in 1..Len(packageTree) :
        /\ \/ packageTree[k].weight =
                  Len(packageTree[k].nodes) + SumOfWeights(ChildSet(k))
           \/ /\ ChildSet(k) # {}
              /\ Len(packageTree[k].nodes) = 0
              /\ packageTree[k].weight >= 1
        /\ k # 1 => packageTree[k].weight >= 1

\* A tree was built in which a package has sub-packages and no direct
\* nodes, and another has both.
WeightOfInnerPackages ==
    /\ TreeBuilt
    /\ \E k \in 2..Len(packageTree) :
          /\ ChildSet(k) # {}
          /\ Len(packageTree[k].nodes) = 0
          /\ packageTree[k].weight > 1
    /\ \E k \in 1..Len(packageTree) :
          /\ ChildSet(k) # {}
          /\ Len(packageTree[k].nodes) > 0

Occurrences(list, v) == Cardinality({ i \in 1..Len(list) : list[i] = v })

\* The descendantNodes of the children of tree node k one after the other,
\* the children in the order they were created, from child j on.
RECURSIVE DescendantsBelow(_, _)
DescendantsBelow(k, j) ==
    IF j > Len(packageTree) THEN <<>>
    ELSE IF j \in ChildSet(k)
    THEN packageTree[j].descendantNodes \o DescendantsBelow(k, j + 1)
    ELSE DescendantsBelow(k, j + 1)

\* C15: in the tree buildPackageTree returns, every node of the graph is in
\* the nodes list of exactly one tree node, the one whose fullPath is the
\* package of the node; the descendantNodes of a tree node are its own nodes
\* followed by the descendantNodes of its children; and the descendantNodes
\* of the root have every node of the graph exactly once.
EveryNodeInItsPackage ==
    TreeBuilt =>
    LET pkgs == NodePackages(targets) IN
    /\ \A n \in 1..Len(pkgs) :
          /\ \A k \in 1..Len(packageTree) :
                Occurrences(packageTree[k].nodes, n) =
                    IF packageTree[k].fullPath = pkgs[n] THEN 1 ELSE 0
          /\ Cardinality({ k \in 1..Len(packageTree) :
                             Occurrences(packageTree[k].nodes, n) > 0 }) = 1
          /\ Occurrences(packageTree[1].descendantNodes, n) = 1
    /\ \A k \in 1..Len(packageTree) :
          packageTree[k].descendantNodes =
              packageTree[k].nodes \o DescendantsBelow(k, 1)
    /\ Len(packageTree[1].descendantNodes) = Len(pkgs)

\* A tree was built for a graph with nodes at the root, in a package and in
\* a sub-package of it.
NodesAtThreeLevels ==
    /\ TreeBuilt
    /\ Len(packageTree[1].nodes) > 0
    /\ \E k, j \in 2..Len(packageTree) :
          /\ j \in ChildSet(k)
          /\ Len(packageTree[k].nodes) > 0
          /\ Len(packageTree[j].nodes) > 0
          /\ Len(packageTree[1].descendantNodes) > Len(packageTree[k].descendantNodes)

\* ------------------------------------------------------- properties of the treemap
TreemapApplied == TreeBuilt /\ packageTree[1].bounds # NoBounds

\* a / b for b > 0
RDiv(a, b) == RMul(a, <<b[2], b[1]>>)

\* The area of rectangle b as a fraction of the area of rectangle whole.
AreaShare(b, whole) ==
    RMul(RDiv(b.width, whole.width), RDiv(b.height, whole.height))

\* The two rectangles have a region of positive area in common.
Overlap(a, b) ==
    /\ RLess(RMax(a.x, b.x), RMin(RAdd(a.x, a.width), RAdd(b.x, b.width)))
    /\ RLess(RMax(a.y, b.y), RMin(RAdd(a.y, a.height), RAdd(b.y, b.height)))

InnerBoundsOf(k) == padBounds(packageTree[k].bounds, TreemapPadding)

\* Tree node k has children and bounds whose padded inner bounds are not
\* below the minimum size.
Subdivided(k) ==
    /\ packageTree[k].bounds # NoBounds
    /\ ChildSet(k) # {}
    /\ RLeq(RInt(TreemapMinSize), InnerBoundsOf(k).width)
    /\ RLeq(RInt(TreemapMinSize), InnerBoundsOf(k).height)

TotalWeightOf(k) == Len(packageTree[k].nodes) + SumOfWeights(ChildSet(k))

\* Every child of tree node k has the share of the inner area its weight
\* gives it, and no two children overlap.
ChildrenProportional(k) ==
    /\ \A j \in ChildSet(k) :
          /\ packageTree[j].bounds # NoBounds
          /\ AreaShare(packageTree[j].bounds, InnerBoundsOf(k)) =
                 Rat(packageTree[j].weight, TotalWeightOf(k))
    /\ \A i, j \in ChildSet(k) :
          i # j => ~Overlap(packageTree[i].bounds, packageTree[j].bounds)

\* The part of the inner bounds of tree node k that is left for its
\* children is at least 1 wide and 1 high.
ChildrenRegionSubdivisible(k) ==
    LET inner == InnerBoundsOf(k)
        direct == Len(packageTree[k].nodes)
        region == IF direct = 0 THEN inner
                  ELSE IF RLeq(inner.height, inner.width)
                  THEN [inner EXCEPT !.width =
                           RMul(@, Rat(SumOfWeights(ChildSet(k)), TotalWeightOf(k)))]
                  ELSE [inner EXCEPT !.height =
                           RMul(@, Rat(SumOfWeights(ChildSet(k)), TotalWeightOf(k)))]
    IN RLeq(RInt(1), region.width) /\ RLeq(RInt(1), region.height)

\* C12 as stated: after applyTreemapToPackageTree, for every tree node with
\* children whose padded inner bounds are not below the minimum size, the
\* rectangle of child i has the area A * w_i / W (A the area of the inner
\* bounds, W the direct node count plus the weights of the children) and no
\* two sibling rectangles overlap in a region of positive area.
TreemapAreasProportional ==
    TreemapApplied =>
    \A k \in 1..Len(packageTree) : Subdivided(k) => ChildrenProportional(k)

\* C12 amended: the same, for the tree nodes that have one child or whose
\* inner bounds leave the children a region at least 1 wide and 1 high.
TreemapAreasUnlessCollapsed ==
    TreemapApplied =>
    \A k \in 1..Len(packageTree) :
        /\ Subdivided(k)
        /\ Cardinality(ChildSet(k)) = 1 \/ ChildrenRegionSubdivisible(k)
        => ChildrenProportional(k)

\* A treemap was applied to a tree in which a package with direct nodes has
\* two sub-packages of different weights that share the rest of its inner
\* bounds, a region at least 1 wide and 1 high, in proportion to their weights.
TreemapSharesArea ==
    /\ TreemapApplied
    /\ \E k \in 1..Len(packageTree) :
          /\ Subdivided(k)
          /\ ChildrenRegionSubdivisible(k)
          /\ Len(packageTree[k].nodes) > 0
          /\ \E i, j \in ChildSet(k) : packageTree[i].weight > packageTree[j].weight
          /\ ChildrenProportional(k)

\* ------------------------------------------------------- properties of the hierarchical layout
LaidOut == TreeBuilt /\ packageTree[1].bounds # NoBounds

\* Rectangle a lies in rectangle b.
Within(a, b) ==
    /\ RLeq(b.x, a.x)
    /\ RLeq(b.y, a.y)
    /\ RLeq(RAdd(a.x, a.width), RAdd(b.x, b.width))
    /\ RLeq(RAdd(a.y, a.height), RAdd(b.y, b.height))

\* The strip of the inner bounds of tree node k after its leading strip of
\* the fraction direct count / total weight.
RemainingStripOf(k) ==
    LET inner == InnerBoundsOf(k)
        fraction == Rat(Len(packageTree[k].nodes), TotalWeightOf(k))
    IN IF RLeq(inner.height, inner.width)
       THEN Bounds(RAdd(inner.x, RMul(inner.width, fraction)), inner.y,
                   RSub(inner.width, RMul(inner.width, fraction)), inner.height)
       ELSE Bounds(inner.x, RAdd(inner.y, RMul(inner.height, fraction)),
                   inner.width, RSub(inner.height, RMul(inner.height, fraction)))

\* C13: for every tree node with direct nodes and sub-packages, the region
\* in which processPackageNode places the direct nodes does not overlap the
\* bounds of a child package in a region of positive area, and the bounds of
\* every child lie in the strip of the inner bounds that remains after the
\* leading strip of the direct nodes.
DirectRegionApartFromChildren ==
    LaidOut =>
    \A k \in 1..Len(packageTree) :
        /\ Len(packageTree[k].nodes) > 0
        /\ ChildSet(k) # {}
        /\ packageTree[k].bounds # NoBounds
        => \A j \in ChildSet(k) :
              /\ ~Overlap(packageTree[k].directNodeBounds, packageTree[j].bounds)
              /\ Within(packageTree[j].bounds, RemainingStripOf(k))

\* The position of node n of the graph is in rectangle b.
Inside(n, b) ==
    /\ RLeq(b.x, positions[n].x)
    /\ RLeq(positions[n].x, RAdd(b.x, b.width))
    /\ RLeq(b.y, positions[n].y)
    /\ RLeq(positions[n].y, RAdd(b.y, b.height))

\* C16: when runBoundedForceAtlas2 has returned, every node of the subgraph
\* is inside the bounds it was given: the direct nodes of every package with
\* two nodes or more are inside the bounds processPackageNode passed for it.
NodesInsideBounds ==
    LaidOut =>
    \A k \in 1..Len(packageTree) :
        /\ Len(packageTree[k].nodes) >= 2
        /\ packageTree[k].bounds # NoBounds
        => \A i \in 1..Len(packageTree[k].nodes) :
              Inside(packageTree[k].nodes[i], packageTree[k].directNodeBounds)

\* ------------------------------------------------------- layout.ts, radial
\* A position of the radial layout is kept in polar form: the record
\* [radius, index, count] is the point (cos(angle) * radius,
\* sin(angle) * radius) with angle = index * (2 * PI / count) - PI / 2.
\* The origin (0, 0) is the only point of radius 0.
Origin == [radius |-> 0, index |-> 0, count |-> 1]
OnCircle(radius, index, count) ==
    [radius |-> radius, index |-> index, count |-> count]

BaseRadius == 100
MinRadiusIncrement == 80
radiusIncrement(order) ==
    IF order * 2 > MinRadiusIncrement THEN order * 2 ELSE MinRadiusIncrement

\* The distance of the nodes the search did not reach.
InfiniteDistance == -1

RECURSIVE WithoutSeen(_, _)
WithoutSeen(s, seen) ==
    IF s = <<>> THEN <<>>
    ELSE IF Head(s) \in seen THEN WithoutSeen(Tail(s), seen)
    ELSE <<Head(s)>> \o WithoutSeen(Tail(s), seen)

Range(s) == { s[i] : i \in 1..Len(s) }

\* The out-neighbours only.
forEachNeighborOut(g, n, first) == outNeighbors(g, n)
\* graph.forEachNeighbor(n, ..): the in- and the out-neighbours, each once;
\* first says which of the two the graph visits first.
forEachNeighbor(g, n, first) ==
    IF first = "in"
    THEN inNeighbors(g, n) \o WithoutSeen(outNeighbors(g, n), Range(inNeighbors(g, n)))
    ELSE outNeighbors(g, n) \o WithoutSeen(inNeighbors(g, n), Range(outNeighbors(g, n)))

\* graph.degree(n): the edges into n and out of n.
degree(g, n) == Len(inNeighbors(g, n)) + Len(outNeighbors(g, n))

\* The first node of forEachNode with the highest degree.
RECURSIVE HighestDegree(_, _, _, _)
HighestDegree(g, i, maxDegree, best) ==
    IF i > MaxNodes THEN best
    ELSE IF degree(g, NodeOrder[i]) > maxDegree
         THEN HighestDegree(g, i + 1, degree(g, NodeOrder[i]), NodeOrder[i])
         ELSE HighestDegree(g, i + 1, maxDegree, best)

CenterNode(g, radialCenterNode) ==
    IF ~hasNode(radialCenterNode)
    THEN HighestDegree(g, 1, -1, AbsentId)
    ELSE radialCenterNode

\* distances is the Map of the code: the entries [node, dist] in the order
\* they were set.
HasDistance(distances, n) == \E i \in 1..Len(distances) : distances[i].node = n
GetDistance(distances, n) ==
    distances[CHOOSE i \in 1..Len(distances) : distances[i].node = n].dist

RECURSIVE VisitNeighbors(_, _, _, _, _)
VisitNeighbors(nbrs, i, currentDist, distances, queue) ==
    IF i > Len(nbrs) THEN [distances |-> distances, queue |-> queue]
    ELSE IF HasDistance(distances, nbrs[i])
         THEN VisitNeighbors(nbrs, i + 1, currentDist, distances, queue)
         ELSE VisitNeighbors(nbrs, i + 1, currentDist,
                             Append(distances, [node |-> nbrs[i], dist |-> currentDist + 1]),
                             Append(queue, nbrs[i]))

RECURSIVE RadialBfs(_, _, _, _)
RadialBfs(g, first, distances, queue) ==
    IF queue = <<>> THEN distances
    ELSE LET current == Head(queue)
             st == VisitNeighbors(forEachNeighbor(g, current, first), 1,
                                  GetDistance(distances, current), distances,
                                  Tail(queue))
         IN RadialBfs(g, first, st.distances, st.queue)

RECURSIVE AddDisconnected(_, _)
AddDisconnected(distances, i) ==
    IF i > MaxNodes THEN distances
    ELSE IF HasDistance(distances, NodeOrder[i])
         THEN AddDisconnected(distances, i + 1)
         ELSE AddDisconnected(Append(distances, [node |-> NodeOrder[i],
                                                  dist |-> InfiniteDistance]),
                              i + 1)

RECURSIVE MaxFiniteLayer(_, _, _)
MaxFiniteLayer(distances, i, m) ==
    IF i > Len(distances) THEN m
    ELSE MaxFiniteLayer(distances, i + 1,
                        IF distances[i].dist # InfiniteDistance /\ distances[i].dist > m
                        THEN distances[i].dist ELSE m)

\* layers.get(dist): the nodes of one distance in the order of distances.
RECURSIVE LayerNodes(_, _, _)
LayerNodes(distances, dist, i) ==
    IF i > Len(distances) THEN <<>>
    ELSE IF distances[i].dist = dist
         THEN <<distances[i].node>> \o LayerNodes(distances, dist, i + 1)
         ELSE LayerNodes(distances, dist, i + 1)

\* The layer the nodes of a distance are placed in: the disconnected nodes
\* in the layer after the last finite one.
LayerOf(distances, dist) ==
    IF dist = InfiniteDistance THEN MaxFiniteLayer(distances, 1, 0) + 1 ELSE dist

applyRadialLayout(g, pos, radialCenterNode, first) ==
    LET center == CenterNode(g, radialCenterNode)
        distances == AddDisconnected(
                        RadialBfs(g, first, <<[node |-> center, dist |-> 0]>>, <<center>>), 1)
        place(n) ==
            LET dist == GetDistance(distances, n)
                layer == LayerOf(distances, dist)
                nodes == LayerNodes(distances, dist, 1)
            IN IF layer = 0 THEN Origin
               ELSE OnCircle(BaseRadius + (layer - 1) * radiusIncrement(MaxNodes),
                             IndexOf(nodes, n) - 1, Len(nodes))
    IN [n \in 1..MaxNodes |-> place(n)]

\* ------------------------------------------------------- the radial layout of a graph
\* parseGraph puts every node at a point of its own choosing; here all at
\* (r, 0) for some r.
InitRadial ==
    /\ AnalysisIdle
    /\ HullIdle
    /\ EffectsIdle
    /\ targets = <<>>
    /\ packageTree = <<>>
    /\ applied = NoLayout
    /\ \E r \in ParsedCoordinates :
          positions = [n \in 1..MaxNodes |-> OnCircle(r, 1, 4)]

\* applyLayout(graph, 'radial', {radialCenterNode}); an id that is no node
\* stands for null as well.
ApplyRadial(radialCenterNode, first) ==
    /\ call = NoCall
    /\ call' = [fn |-> "applyRadialLayout", a |-> radialCenterNode, b |-> AbsentId]
    /\ ret' = NoReturn
    /\ positions' = applyRadialLayout(edges, positions, radialCenterNode, first)
    /\ UNCHANGED <<edges, hullVars, targets, packageTree, applied, effectVars>>

NextRadial ==
    \/ \E s \in Nodes, t \in Nodes : AddEdge(s, t)
    \/ \E c \in Ids, first \in {"in", "out"} : ApplyRadial(c, first)

SpecRadial == InitRadial /\ [][NextRadial]_vars

\* ------------------------------------------------------- properties of the radial layout
RadialApplied == call.fn = "applyRadialLayout"

\* The nodes with an edge to or from a node of S.
Adjacent(S) ==
    { n \in Nodes : \E m \in S : hasEdge(edges, n, m) \/ hasEdge(edges, m, n) }

\* The nodes at most k edges from the nodes of S, the direction of the
\* edges left aside.
RECURSIVE Ball(_, _)
Ball(S, k) == IF k = 0 THEN S ELSE Ball(S \cup Adjacent(S), k - 1)

Reachable(c) == Ball({c}, MaxNodes)
Distance(c, n) == CHOOSE k \in 0..MaxNodes : n \in Ball({c}, k) /\ \A j \in 0..(k - 1) : n \notin Ball({c}, j)

\* The center the layout was applied with: the one asked for, else a node
\* of the highest degree.
CenterUsed ==
    IF hasNode(call.a) THEN call.a
    ELSE CHOOSE c \in Nodes :
            /\ \A n \in Nodes : degree(edges, n) <= degree(edges, c)
            /\ \A n \in Nodes : degree(edges, n) = degree(edges, c) => c <= n

RingRadius(k) == BaseRadius + (k - 1) * radiusIncrement(MaxNodes)

LargestDistance(c) ==
    CHOOSE k \in 0..MaxNodes :
        /\ \E n \in Reachable(c) : Distance(c, n) = k
        /\ \A n \in Reachable(c) : Distance(c, n) <= k

\* C17: after applyRadialLayout on a non-empty graph the center is at
\* (0, 0), every node at distance k >= 1 from the center (over the edges in
\* both directions) is on the ring of radius base + (k - 1) * increment,
\* and the nodes the center does not reach are together on the ring after
\* the one of the largest distance; every node has a position.
RadialRings ==
    RadialApplied =>
    LET c == CenterUsed IN
    /\ DOMAIN positions = Nodes
    /\ positions[c] = Origin
    /\ \A n \in Reachable(c) \ {c} :
          positions[n].radius = RingRadius(Distance(c, n))
    /\ \A n \in Nodes \ Reachable(c) :
          positions[n].radius = RingRadius(LargestDistance(c) + 1)

\* A radial layout of a graph with a node two edges from the center, the
\* second against the direction of the edge, and of one with a node next
\* to the center and a node the center does not reach.
RadialWithFarAndUnreached ==
    /\ RadialApplied
    /\ \/ \E n \in Reachable(CenterUsed) :
             /\ Distance(CenterUsed, n) = 2
             /\ \E m \in Nodes : hasEdge(edges, n, m) /\ hasEdge(edges, CenterUsed, m)
       \/ /\ Nodes \ Reachable(CenterUsed) # {}
          /\ Reachable(CenterUsed) # {CenterUsed}

\* ------------------------------------------------------- the stores, the hooks and HullRenderer
\* Graphs loaded, one after the other, each a new Graph object.
MaxGraphs == 2
\* layoutVersion and hullVersion stay below this.
MaxVersion == 4
\* Layout runs.
MaxRuns == 4

\* What is known of the positions of a graph: the layout run that wrote
\* them, and the graph, settings and layoutVersion the run was made with.
\* parseGraph's positions are those of run 0.
ParsedStamp(g) ==
    [run |-> 0, graph |-> g, settings |-> NoSettings, layoutVersion |-> 0]

\* An event is handled when the change of the stores before it was rendered
\* (a change of a store is rendered at once) and React is not in the middle
\* of running the effects of a render; the effects of the last render may
\* still be waiting.
HandlesEvents == view.rendered = store /\ ~view.flushing

\* appStore: a file or URL was loaded and parsed into a new graph.
LoadGraph ==
    /\ HandlesEvents
    /\ Len(view.written) < MaxGraphs
    /\ store' = [store EXCEPT !.graph = Len(view.written) + 1]
    /\ view' = [view EXCEPT !.written = Append(@, ParsedStamp(Len(@) + 1))]
    /\ UNCHANGED <<analysisVars, hullVars, layoutVars>>

\* appStore.clearData
ClearData ==
    /\ HandlesEvents
    /\ store.graph # NoGraph
    /\ store' = [store EXCEPT !.graph = NoGraph]
    /\ UNCHANGED <<view, analysisVars, hullVars, layoutVars>>

\* setLayoutAlgorithm, setLayoutQuality, setRadialCenterNode, ..
SetLayoutSetting(s) ==
    /\ HandlesEvents
    /\ s # store.settings
    /\ store' = [store EXCEPT !.settings = s]
    /\ UNCHANGED <<view, analysisVars, hullVars, layoutVars>>

\* The filter store's setters.
SetFilter(f) ==
    /\ HandlesEvents
    /\ f # store.filters
    /\ store' = [store EXCEPT !.filters = f]
    /\ UNCHANGED <<view, analysisVars, hullVars, layoutVars>>

triggerRelayout(st) == [st EXCEPT !.layoutVersion = @ + 1]
incrementHullVersion(st) == [st EXCEPT !.hullVersion = @ + 1]

\* The re-layout button.
TriggerRelayout ==
    /\ HandlesEvents
    /\ store.layoutVersion < MaxVersion
    /\ store' = triggerRelayout(store)
    /\ UNCHANGED <<view, analysisVars, hullVars, layoutVars>>

SetShowHulls(show) ==
    /\ HandlesEvents
    /\ show # store.showHulls
    /\ store' = [store EXCEPT !.showHulls = show]
    /\ UNCHANGED <<view, analysisVars, hullVars, layoutVars>>

\* The effects React runs after a render of the values r, in the order of
\* the tree: those of the children of SigmaContainer, mounted while there is
\* a graph, then those of App. React runs them in one go (flushing): an
\* event is handled before the first or after the last of them.
Pending(v, r) ==
    (IF r.graph # NoGraph /\ v.loaderDeps # LoaderDeps(r) THEN <<"GraphLoader">> ELSE <<>>)
    \o (IF r.graph # NoGraph /\ v.hullDeps # HullDeps(r) THEN <<"HullRenderer">> ELSE <<>>)
    \o (IF v.filterDeps # FilterDeps(r) THEN <<"useApplyFilters">> ELSE <<>>)
    \o (IF v.layoutDeps # LayoutDeps(r) THEN <<"useApplyLayout">> ELSE <<>>)

\* Without a graph GraphCanvas shows its placeholder: SigmaContainer and its
\* children are unmounted, their refs and the sigma instance are gone.
Unmount(v) ==
    [v EXCEPT !.loaderDeps = Unmounted, !.hullDeps = Unmounted,
              !.sigmaGraph = NoGraph, !.hullsRef = <<>>]

\* A render of the components that read the stores, after the effects of
\* the render before have run.
Render ==
    /\ view.queue = <<>>
    /\ view.rendered # store
    /\ LET v == IF store.graph = NoGraph THEN Unmount(view) ELSE view
       IN view' = [v EXCEPT !.rendered = store, !.queue = Pending(v, store)]
    /\ UNCHANGED <<store, analysisVars, hullVars, layoutVars>>

\* GraphLoader: sigma.setGraph(graph)
GraphLoaderEffect ==
    /\ view.queue # <<>> /\ Head(view.queue) = "GraphLoader"
    /\ view' = [view EXCEPT !.queue = Tail(@), !.flushing = Tail(view.queue) # <<>>,
                            !.loaderDeps = LoaderDeps(view.rendered),
                            !.sigmaGraph = view.rendered.graph]
    /\ UNCHANGED <<store, analysisVars, hullVars, layoutVars>>

\* HullRenderer: the hulls of the graph sigma shows, from the positions it
\* has now; nothing while the hulls are switched off.
HullRendererEffect ==
    /\ view.queue # <<>> /\ Head(view.queue) = "HullRenderer"
    /\ view' = [view EXCEPT !.queue = Tail(@), !.flushing = Tail(view.queue) # <<>>,
                            !.hullDeps = HullDeps(view.rendered),
                            !.hullsRef = IF ~view.rendered.showHulls THEN @
                                         ELSE IF view.sigmaGraph = NoGraph THEN <<>>
                                         ELSE <<view.written[view.sigmaGraph]>>]
    /\ UNCHANGED <<store, analysisVars, hullVars, layoutVars>>

\* useApplyFilters: hides nodes and edges, then triggers a re-layout.
UseApplyFiltersEffect ==
    /\ view.queue # <<>> /\ Head(view.queue) = "useApplyFilters"
    /\ view' = [view EXCEPT !.queue = Tail(@), !.flushing = Tail(view.queue) # <<>>,
                            !.filterDeps = FilterDeps(view.rendered)]
    /\ IF view.rendered.graph = NoGraph
       THEN UNCHANGED store
       ELSE /\ store.layoutVersion < MaxVersion
            /\ store' = triggerRelayout(store)
    /\ UNCHANGED <<analysisVars, hullVars, layoutVars>>

\* useApplyLayout: applyLayout writes the positions of the graph, then
\* incrementHullVersion.
UseApplyLayoutEffect ==
    /\ view.queue # <<>> /\ Head(view.queue) = "useApplyLayout"
    /\ LET r == view.rendered IN
       IF r.graph = NoGraph
       THEN /\ view' = [view EXCEPT !.queue = Tail(@), !.flushing = Tail(view.queue) # <<>>, !.layoutDeps = LayoutDeps(r)]
            /\ UNCHANGED store
       ELSE /\ view.runs < MaxRuns
            /\ store.hullVersion < MaxVersion
            /\ view' = [view EXCEPT !.queue = Tail(@), !.flushing = Tail(view.queue) # <<>>,
                                    !.layoutDeps = LayoutDeps(r),
                                    !.runs = @ + 1,
                                    !.written[r.graph] =
                                        [run |-> view.runs + 1, graph |-> r.graph,
                                         settings |-> r.settings,
                                         layoutVersion |-> r.layoutVersion]]
            /\ store' = incrementHullVersion(store)
    /\ UNCHANGED <<analysisVars, hullVars, layoutVars>>

InitEffects ==
    /\ AnalysisIdle
    /\ HullIdle
    /\ LayoutIdle
    /\ EffectsIdle

NextEffects ==
    \/ LoadGraph
    \/ ClearData
    \/ \E s \in LayoutSettings : SetLayoutSetting(s)
    \/ \E f \in Filters : SetFilter(f)
    \/ TriggerRelayout
    \/ \E show \in BOOLEAN : SetShowHulls(show)
    \/ Render
    \/ GraphLoaderEffect
    \/ HullRendererEffect
    \/ UseApplyFiltersEffect
    \/ UseApplyLayoutEffect

SpecEffects == InitEffects /\ [][NextEffects]_vars

\* ------------------------------------------------------- properties of the effects
\* Every change of the stores was rendered and the effects have run.
Quiescent == view.queue = <<>> /\ view.rendered = store

\* C18: hullVersion never decreases, it is incremented only in a step in
\* which a layout run has written the positions of the graph, and once the
\* effects have run the hulls shown are those of the graph loaded, computed
\* from the positions the latest layout run wrote.
HullsFollowLayout ==
    /\ [](Quiescent /\ store.graph # NoGraph /\ store.showHulls
            => /\ view.sigmaGraph = store.graph
               /\ view.hullsRef = <<view.written[store.graph]>>
               /\ view.written[store.graph].run = view.runs)
    /\ [][store'.hullVersion >= store.hullVersion]_vars
    /\ [][store'.hullVersion # store.hullVersion
            => /\ view'.runs = view.runs + 1
               /\ view'.written[view.rendered.graph].run = view'.runs]_vars

\* Hulls shown after a third layout run or a later one, the graph laid out
\* again after the hulls were first computed.
HullsRecomputedAfterRelayout ==
    /\ Quiescent
    /\ store.graph # NoGraph
    /\ store.showHulls
    /\ view.runs >= 3
    /\ view.hullsRef # <<>>
    /\ view.hullsRef[1].run = view.runs

\* C19: a step writes the positions of one graph at most, those of the
\* graph rendered, as one layout run later than every run before; and once
\* the effects have run the positions of the graph loaded are those of the
\* latest run, made with this graph, the current settings and the current
\* layoutVersion.
PositionsOfLatestRequest ==
    /\ [](Quiescent /\ store.graph # NoGraph
            => view.written[store.graph] =
                  [run |-> view.runs, graph |-> store.graph,
                   settings |-> store.settings,
                   layoutVersion |-> store.layoutVersion])
    /\ [][\A g \in DOMAIN view.written :
             view'.written[g] # view.written[g]
             => /\ g = view.rendered.graph
                /\ view'.written[g].run = view.runs + 1
                /\ view'.runs = view.runs + 1
                /\ \A h \in DOMAIN view.written : view.written[h].run <= view.runs]_vars

\* A second graph, laid out with other settings than the default, the
\* first graph laid out before it, and each of them twice: for the graph
\* and again for the re-layout the filters trigger.
RelayoutOfSecondGraph ==
    /\ Quiescent
    /\ store.graph > 1
    /\ store.settings # DefaultSettings
    /\ view.written[1].run > 0
    /\ view.written[store.graph].run >= 4

\* ------------------------------------------------------- layout.ts, topological layers
\* The generations of graphology-dag's topologicalGenerations: first the
\* nodes without a dependent, then the nodes all of whose dependents are in
\* a generation before; nodes on or behind a cycle are in no generation.
RECURSIVE GenerationsFrom(_, _)
GenerationsFrom(g, done) ==
    LET ready == { n \in Nodes \ done :
                     \A i \in 1..Len(g) : g[i][2] = n => g[i][1] \in done }
    IN IF ready = {} THEN <<>>
       ELSE <<ready>> \o GenerationsFrom(g, done \cup ready)

Generated(generations) == UNION { generations[i] : i \in 1..Len(generations) }

\* topologicalGenerations throws when the graph is not acyclic.
topologicalGenerations(g) ==
    LET generations == GenerationsFrom(g, {})
    IN IF Generated(generations) = Nodes
       THEN [threw |-> FALSE, generations |-> generations]
       ELSE [threw |-> TRUE, generations |-> <<>>]

\* The entries [node, layer] of the Map nodeToLayer, generation by
\* generation and in the order of the nodes within one.
RECURSIVE LayerEntries(_, _, _)
LayerEntries(generations, layerIndex, n) ==
    IF layerIndex > Len(generations) THEN <<>>
    ELSE IF n > MaxNodes THEN LayerEntries(generations, layerIndex + 1, 1)
    ELSE IF n \in generations[layerIndex]
         THEN <<[node |-> n, layer |-> layerIndex - 1]>>
              \o LayerEntries(generations, layerIndex, n + 1)
         ELSE LayerEntries(generations, layerIndex, n + 1)

\* The layers without the catch: those of the generations found before the
\* cycle.
computeTopologicalLayersUncaught(g) == LayerEntries(GenerationsFrom(g, {}), 1, 1)
computeTopologicalLayers(g) ==
    LET r == topologicalGenerations(g)
    IN IF r.threw THEN <<>> ELSE LayerEntries(r.generations, 1, 1)

\* nodeToLayer.get(n) ?? 0
LayerOrZero(nodeToLayer, n) ==
    IF \E i \in 1..Len(nodeToLayer) : nodeToLayer[i].node = n
    THEN nodeToLayer[CHOOSE i \in 1..Len(nodeToLayer) : nodeToLayer[i].node = n].layer
    ELSE 0

\* ------------------------------------------------------- the hierarchical layout of a graph with a cycle
\* The dependencies parseGraph made edges of: up to MaxEdges edges between
\* different nodes, no two the same. Neither the layers nor the layout with
\* the default options depend on the order of the edges, so each set of
\* edges is taken in one order.
EdgeLists ==
    { g \in UNION { [1..k -> { <<s, t>> : s \in Nodes, t \in Nodes }] : k \in 0..MaxEdges } :
        /\ \A i \in 1..Len(g) : g[i][1] # g[i][2]
        /\ \A i, j \in 1..Len(g) :
              i < j => g[i][1] * MaxNodes + g[i][2] < g[j][1] * MaxNodes + g[j][2] }

\* The nodes that depend on n, over one dependency or more.
RECURSIVE DependentsWithin(_, _, _)
DependentsWithin(g, S, k) ==
    IF k = 0 THEN S
    ELSE DependentsWithin(g, S \cup { g[i][1] : i \in { j \in 1..Len(g) : g[j][2] \in S } },
                          k - 1)

DependsOnItself(g, n) ==
    n \in DependentsWithin(g, { g[i][1] : i \in { j \in 1..Len(g) : g[j][2] = n } },
                           MaxNodes)

HasDirectedCycle(g) == \E n \in Nodes : DependsOnItself(g, n)

\* The graphs of this specification: MaxNodes targets without a crowd,
\* whose dependencies have a cycle. (In a graph without a cycle the layers
\* order the sibling packages and bias the start of the nodes; that is not
\* part of this specification.)
CyclicEdgeLists == { g \in EdgeLists : HasDirectedCycle(g) }

SmallTargetLists ==
    { tg \in TargetLists :
        /\ WellFormedTargets(tg)
        /\ \A i, j \in 1..Len(tg) :
              i < j => Len(tg[i].package) < Len(tg[j].package)
        /\ \A i \in 1..Len(tg) : tg[i].count # Crowd
        /\ Len(NodePackages(tg)) = MaxNodes }

InitLayers ==
    /\ HullIdle
    /\ EffectsIdle
    /\ call = NoCall
    /\ ret = NoReturn
    /\ targets \in SmallTargetLists
    /\ edges \in CyclicEdgeLists
    /\ \E c \in ParsedCoordinates : positions = ParsedPositions(targets, c)
    /\ packageTree = <<>>
    /\ applied = NoLayout

\* applyLayout(graph, 'hierarchical', {quality}) with the other options at
\* their defaults (no edge optimization, no neighbor gravity). With the
\* empty map of layers every node is in layer 0: siblingOrderFn compares 0
\* with 0 and leaves the order, and xBias is 0.
ApplyHierarchicalWithLayers(quality, rnd, d) ==
    /\ packageTree = <<>>
    /\ \E nodeToLayer \in { computeTopologicalLayers(edges) } :
          /\ \A n \in Nodes : LayerOrZero(nodeToLayer, n) = 0
          /\ \E st \in { applyHierarchicalLayout(targets, positions, quality,
                                                 FALSE, rnd, d) } :
                /\ packageTree' = st.tree
                /\ positions' = st.pos
                /\ applied' = [NoLayout EXCEPT !.algorithm = "hierarchical",
                                               !.quality = quality,
                                               !.forces = d,
                                               !.nodeToLayer = nodeToLayer,
                                               !.start = positions,
                                               !.out = st.pos,
                                               !.runs = 1]
    /\ UNCHANGED <<targets, analysisVars, hullVars, effectVars>>

NextLayers ==
    \E quality \in Qualities, rnd \in Randoms, d \in Directions :
        ApplyHierarchicalWithLayers(quality, rnd, d)

SpecLayers == InitLayers /\ [][NextLayers]_vars

\* ------------------------------------------------------- properties of the layers
\* A walk along the edges of the graph that returns to where it started.
ClosedWalk(w) ==
    /\ Len(w) >= 2
    /\ \A i \in 1..Len(w) : hasEdge(edges, w[i], w[(i % Len(w)) + 1])

RandomScale == 1000

\* applyRandomLayout: Math.random() * scale - scale / 2 for the x and for
\* the y of every node; rx and ry are what Math.random returned.
applyRandomLayout(pos, rx, ry) ==
    [i \in 1..Len(pos) |->
        [x |-> RSub(RMul(rx[i], RInt(RandomScale)), RInt(RandomScale \div 2)),
         y |-> RSub(RMul(ry[i], RInt(RandomScale)), RInt(RandomScale \div 2))]]

\* applyForceAtlas2 with the default options: forceAtlas2.assign in a single
\* pass, from the positions the nodes have.
applyForceAtlas2(pos, d) == forceAtlas2(pos, d)

Algorithms == {"forceAtlas2", "hierarchical", "random"}

ForceBased == {"forceAtlas2", "hierarchical"}

\* What Math.random returns to one call of a layout: one value for the
\* start of the hierarchical layout, one for each coordinate of each node in
\* the random layout.
Draws(n) == [rnd : Randoms, rx : [1..n -> Randoms], ry : [1..n -> Randoms]]

\* What applyLayout keeps of a layout: the tree and the positions.
TreeAndPositions(st) == [tree |-> st.tree, pos |-> st.pos]

\* The switch of applyLayout, noverlap not requested.
applyLayout(tg, pos, algorithm, quality, d, draw) ==
    CASE algorithm = "forceAtlas2" ->
           [tree |-> <<>>, pos |-> applyForceAtlas2(pos, d)]
      [] algorithm = "hierarchical" ->
           TreeAndPositions(applyHierarchicalLayout(tg, pos, quality, FALSE, draw.rnd, d))
      [] algorithm = "random" ->
           [tree |-> <<>>, pos |-> applyRandomLayout(pos, draw.rx, draw.ry)]

\* The random layout is applied to graphs of up to MaxRandomNodes nodes.
MaxRandomNodes == 2

\* Only the choices the algorithm looks at are varied, and the quality is
\* the default of the options, 'balanced'.
Relevant(algorithm, quality, d, draw) ==
    /\ algorithm = "random" => Len(draw.rx) <= MaxRandomNodes
    /\ algorithm # "hierarchical" => draw.rnd = <<0, 1>>
    /\ algorithm # "random" =>
          \A i \in DOMAIN draw.rx : draw.rx[i] = <<0, 1>> /\ draw.ry[i] = <<0, 1>>
    /\ algorithm = "random" => d = [x |-> 0, y |-> 0]
    /\ quality = "balanced"

\* A graph of one to MaxNodes targets without dependencies, as parsed.
RelayoutTargets ==
    { tg \in TargetLists :
        /\ WellFormedTargets(tg)
        /\ \A i, j \in 1..Len(tg) :
              i < j => Len(tg[i].package) < Len(tg[j].package)
        /\ \A i \in 1..Len(tg) : tg[i].count # Crowd
        /\ Len(NodePackages(tg)) \in 1..MaxNodes }

InitRelayout ==
    /\ AnalysisIdle
    /\ HullIdle
    /\ EffectsIdle
    /\ targets \in RelayoutTargets
    /\ \E c \in ParsedCoordinates : positions = ParsedPositions(targets, c)
    /\ packageTree = <<>>
    /\ applied = NoLayout

\* applyLayout(graph, algorithm, {quality}) on the graph as parsed.
ApplyLayout(algorithm, quality, d, draw) ==
    /\ applied.runs = 0
    /\ Relevant(algorithm, quality, d, draw)
    /\ \E st \in { applyLayout(targets, positions, algorithm, quality, d, draw) } :
          /\ packageTree' = st.tree
          /\ positions' = st.pos
          /\ applied' = [NoLayout EXCEPT !.algorithm = algorithm,
                                         !.quality = quality,
                                         !.forces = d,
                                         !.start = positions,
                                         !.out = st.pos,
                                         !.runs = 1]
    /\ UNCHANGED <<targets, analysisVars, hullVars, effectVars>>

\* The same call on a graph with the same nodes, positions and settings as
\* the first: the forces are those of the first run, what Math.random
\* returns is not.
ApplyLayoutToSameInput(draw) ==
    /\ applied.runs = 1
    /\ Relevant(applied.algorithm, applied.quality, applied.forces, draw)
    /\ \E st \in { applyLayout(targets, applied.start, applied.algorithm,
                               applied.quality, applied.forces, draw) } :
          /\ packageTree' = st.tree
          /\ positions' = st.pos
          /\ applied' = [applied EXCEPT !.runs = 2, !.again = "same input"]
    /\ UNCHANGED <<targets, analysisVars, hullVars, effectVars>>

\* The same call on the graph the first call laid out.
ApplyLayoutAgain(d, draw) ==
    /\ applied.runs = 1
    /\ Relevant(applied.algorithm, applied.quality, d, draw)
    /\ \E st \in { applyLayout(targets, positions, applied.algorithm,
                               applied.quality, d, draw) } :
          /\ packageTree' = st.tree
          /\ positions' = st.pos
          /\ applied' = [applied EXCEPT !.runs = 2, !.again = "laid out"]
    /\ UNCHANGED <<targets, analysisVars, hullVars, effectVars>>

NextRelayout ==
    \/ /\ applied.runs = 0
       /\ \E algorithm \in Algorithms, quality \in Qualities, d \in Directions,
             draw \in Draws(Len(positions)) :
             ApplyLayout(algorithm, quality, d, draw)
    \/ /\ applied.runs = 1
       /\ \E draw \in Draws(Len(positions)) : ApplyLayoutToSameInput(draw)
    \/ /\ applied.runs = 1
       /\ \E d \in Directions, draw \in Draws(Len(positions)) : ApplyLayoutAgain(d, draw)

SpecRelayout == InitRelayout /\ [][NextRelayout]_vars

\* ------------------------------------------------------- properties of a second layout
\* C22: two runs of applyLayout with a force-based algorithm on the same
\* graph, from the same initial positions and with the same settings, give
\* every node the same coordinates.
SameInputSameCoordinates ==
    (applied.again = "same input" /\ applied.algorithm \in ForceBased)
    => positions = applied.out

\* C23: for every layout algorithm, a second applyLayout with the same
\* algorithm and settings on the graph just laid out leaves every node
\* where the first put it.
SecondLayoutMovesNothing ==
    applied.again = "laid out" => positions = applied.out

\* ------------------------------------------------------- layout.ts, adaptive edge weights
\* The attribute weight of every edge, in the order of the edges, with the
\* degrees counting the out-edges only.
computeAdaptiveEdgeWeightsOutDegree(g) ==
    [i \in 1..Len(g) |->
        LET sourceDegree == Len(outNeighbors(g, g[i][1]))
            targetDegree == Len(outNeighbors(g, g[i][2]))
            harmonicDegree == IF sourceDegree + targetDegree = 0 THEN RInt(0)
                              ELSE Rat(2 * sourceDegree * targetDegree,
                                       sourceDegree + targetDegree)
        IN RAdd(RInt(1), RDiv(RInt(10), RMax(harmonicDegree, RInt(1))))]
computeAdaptiveEdgeWeights(g) ==
    [i \in 1..Len(g) |->
        LET sourceDegree == degree(g, g[i][1])
            targetDegree == degree(g, g[i][2])
            harmonicDegree == Rat(2 * sourceDegree * targetDegree,
                                  sourceDegree + targetDegree)
        IN RAdd(RInt(1), RDiv(RInt(10), RMax(harmonicDegree, RInt(1))))]

\* parseGraph's second pass, before any layout.
ParseEdge(s, t) ==
    /\ applied.runs = 0
    /\ AddEdge(s, t)

\* computeAdaptiveEdgeWeights(graph), as applyForceAtlas2 calls it first
\* when edgeOptimization is on.
ComputeAdaptiveEdgeWeights ==
    /\ applied.runs = 0
    /\ applied' = [applied EXCEPT !.weight = computeAdaptiveEdgeWeights(edges),
                                  !.runs = 1]
    /\ UNCHANGED <<targets, packageTree, positions, analysisVars, hullVars, effectVars>>

NextWeights ==
    \/ \E s \in Nodes, t \in Nodes : ParseEdge(s, t)
    \/ ComputeAdaptiveEdgeWeights

SpecWeights == Init /\ [][NextWeights]_vars

\* ------------------------------------------------------- properties of the edge weights
\* The number of edges that start or end at n.
TotalDegree(n) ==
    Cardinality({ i \in 1..Len(edges) : edges[i][1] = n })
    + Cardinality({ i \in 1..Len(edges) : edges[i][2] = n })

\* The harmonic mean of a and b.
HarmonicMean(a, b) == RDiv(RInt(2), RAdd(<<1, a>>, <<1, b>>))

\* C24: after computeAdaptiveEdgeWeights every edge has the weight
\* 1 + 10 / max(h, 1), h the harmonic mean of the total degrees of its two
\* ends, which is between 1 and 11 and is 11 for an edge between two nodes
\* of degree 1; and no edge's weight is higher in the graph with one more
\* edge, in which a degree is higher.
AdaptiveWeights ==
    applied.runs = 1 =>
       /\ Len(applied.weight) = Len(edges)
       /\ \A i \in 1..Len(edges) :
             LET a == TotalDegree(edges[i][1])
                 b == TotalDegree(edges[i][2])
                 w == applied.weight[i]
             IN /\ w = RAdd(RInt(1), RDiv(RInt(10), RMax(HarmonicMean(a, b), RInt(1))))
                /\ RLeq(RInt(1), w) /\ RLeq(w, RInt(11))
                /\ (a = 1 /\ b = 1) => w = RInt(11)
       /\ \A s \in Nodes, t \in Nodes :
             (s # t /\ ~hasEdge(edges, s, t)) =>
                LET more == computeAdaptiveEdgeWeights(Append(edges, <<s, t>>))
                IN \A i \in 1..Len(edges) : RLeq(more[i], applied.weight[i])

\* Weights computed for a graph in which the edges have different weights,
\* all below 11.
WeightsOfDifferentDegrees ==
    /\ applied.runs = 1
    /\ \A i \in 1..Len(edges) : RLess(applied.weight[i], RInt(11))
    /\ \E i, j \in 1..Len(edges) : RLess(applied.weight[i], applied.weight[j])

\* ------------------------------------------------------- grahamScan on its own
MaxScanPoints == 5

ScanCoordinates == {0, 1, 2}

\* The arrays of three to MaxScanPoints points on the grid, duplicates
\* included.
PointLists ==
    UNION { [1..k -> { Pt(px, py) : px \in ScanCoordinates, py \in ScanCoordinates }] :
              k \in 3..MaxScanPoints }

\* grahamScan(points), called once.
GrahamScan(points) ==
    /\ call = NoCall
    /\ call' = [fn |-> "grahamScan", a |-> points, b |-> Len(points)]
    /\ ret' = [kind |-> "points", path |-> <<>>, list |-> grahamScan(points)]
    /\ UNCHANGED <<edges, exceptAnalysis>>

NextScan ==
    /\ call = NoCall
    /\ \E points \in PointLists : GrahamScan(points)

SpecScan == Init /\ [][NextScan]_vars

\* ------------------------------------------------------- properties of grahamScan
Scanned == call.fn = "grahamScan"

Collinear(points) ==
    \A i, j, k \in 1..Len(points) : cross(points[i], points[j], points[k]) = 0

\* The vertex after vertex i of the polygon.
After(hull, i) == hull[(i % Len(hull)) + 1]

\* C25: for three or more points that are not all on one line, grahamScan
\* takes as pivot the point of lowest y (lowest x among those) and returns
\* input points, the pivot first, that are the vertices of a strictly
\* convex counter-clockwise polygon containing every input point; no
\* vertex lies on the line through its neighbours and none occurs twice.
ScanIsStrictHull ==
    (Scanned /\ ~Collinear(call.a)) =>
       LET points == call.a
           hull == ret.list
       IN /\ Len(hull) >= 3
          /\ \A i \in 1..Len(points) :
                \/ hull[1].y < points[i].y
                \/ hull[1].y = points[i].y /\ hull[1].x <= points[i].x
          /\ \A i \in 1..Len(hull) : \E j \in 1..Len(points) : hull[i] = points[j]
          /\ \A i \in 1..Len(hull) :
                cross(hull[i], After(hull, i), After(hull, (i % Len(hull)) + 1)) > 0
          /\ \A i \in 1..Len(hull) : \A j \in 1..Len(points) :
                cross(hull[i], After(hull, i), points[j]) >= 0
          /\ \A i, j \in 1..Len(hull) : i # j => hull[i] # hull[j]

\* A scan of points with a duplicate, and three on a line, of which only a
\* triangle remains.
ScanDropsPoints ==
    /\ Scanned
    /\ ~Collinear(call.a)
    /\ \E i, j \in 1..Len(call.a) : i # j /\ call.a[i] = call.a[j]
    /\ \E i, j, k \in 1..Len(call.a) :
          /\ call.a[i] # call.a[j] /\ call.a[j] # call.a[k] /\ call.a[i] # call.a[k]
          /\ cross(call.a[i], call.a[j], call.a[k]) = 0
    /\ Len(ret.list) = 3

\* ------------------------------------------------------- properties of the search in both directions
\* C26: for two nodes of the graph, findShortestPath returns a path of the
\* fewest edges along the out-edges from source to target when there is one,
\* even when a shorter sequence against the edges exists; otherwise a
\* sequence from source to target of the fewest steps in which every
\* consecutive pair (u, v) is an edge v -> u; and null only when target is
\* reachable from source in neither direction.
BothDirectionsSearched ==
    (PathCall /\ call.a \in Nodes /\ call.b \in Nodes) =>
       LET E == EdgeSet(edges)
           forward == Reaches(E, call.a, call.b)
           backward == Reaches(E, call.b, call.a)
       IN /\ forward =>
                /\ ret.kind = "path"
                /\ ret.path[1] = call.a /\ ret.path[Len(ret.path)] = call.b
                /\ FollowsEdges(E, ret.path)
                /\ \A p \in OutPaths(E, call.a, call.b) : Len(ret.path) <= Len(p)
          /\ (~forward /\ backward) =>
                /\ ret.kind = "path"
                /\ ret.path[1] = call.a /\ ret.path[Len(ret.path)] = call.b
                /\ AgainstEdges(E, ret.path)
                /\ \A p \in InPaths(E, call.a, call.b) : Len(ret.path) <= Len(p)
          /\ ret.kind = "null" => ~forward /\ ~backward

\* The path of two out-edges was returned although one step against an
\* edge leads from source to target.
LongerForwardPathWitness ==
    /\ PathCall /\ ret.kind = "path" /\ Len(ret.path) = 3
    /\ FollowsEdges(EdgeSet(edges), ret.path)
    /\ <<call.b, call.a>> \in EdgeSet(edges)

\* ------------------------------------------------------- the two cycle tests
Boolean(b) == [kind |-> IF b THEN "true" ELSE "false", path |-> <<>>, list |-> <<>>]

HasCycles ==
    /\ call = NoCall
    /\ call' = [fn |-> "hasCycles", a |-> AbsentId, b |-> AbsentId]
    /\ ret' = Boolean(hasCycles(edges))
    /\ UNCHANGED <<edges, exceptAnalysis>>

NextCycles ==
    \/ \E s \in Nodes, t \in Nodes : AddEdge(s, t)
    \/ FindCycles
    \/ HasCycles

SpecCycles == Init /\ [][NextCycles]_vars

\* C27: hasCycles is true exactly when findCycles returns a list that is
\* not empty, and both exactly when some node has a directed path of one
\* or more edges to itself; neither search enters a node twice, and
\* findCycles enters every node.
CycleTestsAgree ==
    call.fn \in {"hasCycles", "findCycles"} =>
       LET cyclic == ~Acyclic(EdgeSet(edges))
           found == IF call.fn = "findCycles" THEN ret.list ELSE findCycles(edges)
           has == IF call.fn = "hasCycles" THEN ret.kind = "true" ELSE hasCycles(edges)
       IN /\ call.fn = "hasCycles" => ret.kind \in {"true", "false"}
          /\ has <=> found # <<>>
          /\ has <=> cyclic
          /\ NoDuplicates(hasCyclesSearch(edges).entries)
          /\ NoDuplicates(CyclesFrom(edges, 1, NoSearch).entries)
          /\ Elems(CyclesFrom(edges, 1, NoSearch).entries) = Nodes

\* hasCycles was false for a graph in which a node is reached along two
\* edges, from two searches.
NoCycleThroughVisitedNode ==
    /\ call.fn = "hasCycles"
    /\ ret.kind = "false"
    /\ \E n \in Nodes : Len(inNeighbors(edges, n)) = 2
    /\ Len(hasCyclesSearch(edges).entries) = MaxNodes

\* ------------------------------------------------------- the weight and the descendants
\* The tree nodes at or below tree node k.
SubtreeSet(k) ==
    { j \in 1..Len(packageTree) :
        /\ Len(packageTree[j].path) >= Len(packageTree[k].path)
        /\ \A i \in 1..Len(packageTree[k].path) :
              packageTree[j].path[i] = packageTree[k].path[i] }

\* C28: in the tree buildPackageTree returns, the weight of every tree node
\* is the length of its descendantNodes, which is the number of nodes of
\* the graph in its package and the packages below it; the weight is the
\* number of its direct nodes plus the weights of its children, the floor
\* of 1 changing nothing.
WeightIsDescendantCount ==
    TreeBuilt =>
    LET pkgs == NodePackages(targets) IN
    \A k \in 1..Len(packageTree) :
        /\ packageTree[k].weight = Len(packageTree[k].descendantNodes)
        /\ packageTree[k].weight =
              Cardinality({ n \in 1..Len(pkgs) :
                              \E j \in SubtreeSet(k) : packageTree[j].fullPath = pkgs[n] })
        /\ packageTree[k].weight =
              Len(packageTree[k].nodes) + SumOfWeights(ChildSet(k))

\* A tree with a package that has sub-packages and no direct nodes, whose
\* weight is the number of nodes of its sub-packages.
EmptyPackageWeighsDescendants ==
    /\ TreeBuilt
    /\ \E k \in 2..Len(packageTree) :
          /\ ChildSet(k) # {}
          /\ packageTree[k].nodes = <<>>
          /\ packageTree[k].weight = Len(packageTree[k].descendantNodes)
          /\ packageTree[k].weight >= SmallCount

\* ------------------------------------------------------- the hulls of a filtered graph
\* MaxHullNodes nodes in the packages "", "a", "a/b" and "ab", at two
\* positions of the grid, all visible.
InitHidden ==
    /\ AnalysisIdle
    /\ EffectsIdle
    /\ attrs \in [HullNodes -> [x : {0, GridStep * Unit},
                                y : {0},
                                package : PackagePaths,
                                hidden : {FALSE}]]
    /\ padding = 0
    /\ hulls = <<>>
    /\ LayoutIdle

\* Nodes are hidden, then computePackageHulls(graph) is called with its
\* default padding.
NextHidden ==
    \/ \E n \in HullNodes : HideNode(n)
    \/ ComputePackageHulls(DefaultPadding * Unit)

SpecHidden == InitHidden /\ [][NextHidden]_vars

\* The nodes that are not hidden.
Visible == { n \in HullNodes : ~attrs[n].hidden }

\* C29: computePackageHulls returns one hull for each package that is the
\* package attribute of a visible node and for no other package, so none
\* for a package that only has sub-packages or only hidden nodes; and the
\* points a hull is built from are positions of visible nodes, each taken
\* at most as often as visible nodes are at it.
HullsOfVisiblePackages ==
    padding # 0 =>
       /\ { hulls[k].package : k \in 1..Len(hulls) } = { attrs[n].package : n \in Visible }
       /\ \A k, j \in 1..Len(hulls) : hulls[k].package = hulls[j].package => k = j
       /\ \A k \in 1..Len(hulls) :
             LET allPoints == hulls[k].allPoints IN
             /\ allPoints # <<>>
             /\ \A i \in 1..Len(allPoints) :
                   Cardinality({ j \in 1..Len(allPoints) : allPoints[j] = allPoints[i] })
                   <= Cardinality({ n \in Visible :
                                      Pt(attrs[n].x, attrs[n].y) = allPoints[i] })

\* Hulls computed for a graph in which package "a" has a hidden node only,
\* at a position of its own, and a visible node in its sub-package "a/b".
HiddenNodeLeftOut ==
    /\ padding # 0
    /\ \E n \in HullNodes \ Visible :
          /\ attrs[n].package = <<"a">>
          /\ \A m \in Visible : attrs[m].x # attrs[n].x
    /\ \E m \in Visible : attrs[m].package = <<"a", "/", "b">>
    /\ \A k \in 1..Len(hulls) : hulls[k].package # <<"a">>

\* ------------------------------------------------------- the rectangles of parent and child
\* C30: after applyTreemapToPackageTree with a padding of 0 or more, the
\* rectangle of every child that received bounds lies entirely inside the
\* rectangle of its parent, and its width and height are not negative.
ChildInsideParent ==
    TreemapApplied =>
    \A k \in 1..Len(packageTree) : \A j \in ChildSet(k) :
        (packageTree[k].bounds # NoBounds /\ packageTree[j].bounds # NoBounds) =>
           /\ Within(packageTree[j].bounds, packageTree[k].bounds)
           /\ RLeq(RInt(0), packageTree[j].bounds.width)
           /\ RLeq(RInt(0), packageTree[j].bounds.height)

====
